---- MODULE Spec2Model ----
(***************************************************************************)
(* A model of the investigraph pipeline runtime:                           *)
(*   - pipeline.run and the lazy extract -> transform -> load chain of     *)
(*     model/context.py, one generator step per action;                    *)
(*   - SourceContext.extract driven directly by a consumer, with a limit;  *)
(*   - TaskContext.emit / task / __iter__;                                 *)
(*   - make_cache_key of archive.py and cache.py;                          *)
(*   - archive_source behind its anycache decorator, and archive.open;     *)
(*   - the identifier helpers make_slug, make_id, make_fingerprint_id;     *)
(*   - Source construction, Source.info and Source.mimetype;               *)
(*   - skip_cached_source of cache.py;                                     *)
(*   - the default export handler of logic/export.py;                      *)
(*   - two processes in archive_source at a time;                          *)
(*   - get_source_context, and the cli's extract and transform commands.   *)
(***************************************************************************)
EXTENDS Integers, Sequences, FiniteSets, TLC

(* ------------------------------ bounds --------------------------------- *)
\* at most this many records come out of one source's extract handler
MaxRecs == 2
\* at most this many entities come out of one transform handler call
MaxFanout == 2

(* ----------------------------- constants ------------------------------- *)
\* extract(limit=None)
NoLimit == -1
\* a falsy tag-key part / the None that make_tag_key returns
NoKey == <<>>
\* the None a load handler returns that ends in a bare return
NoValue == -1
\* the name of the dataset that pipeline.run works on
DatasetName == "dataset"
\* the datasets that share a tag store
Datasets == {DatasetName, "other"}
\* the runs of one dataset that are modelled (tags and store outlive a run)
Runs == {1, 2}

\* config.seed.handle(ctx) yields these, config.extract.sources holds those
SeedSources == <<"seeded">>
StaticSources == <<"static">>

VARIABLES
    \* inputs, fixed over a behaviour
    nrec,          \* nrec[s]: the records the extract handler produces for s
    ckey,          \* ckey[s]: source.cache_key, NoKey when it is falsy
    fanout,        \* fanout[s]: entities the transform handler yields per record;
                   \* config.transform.handle is one handler for all sources
    loader,        \* config.load.handle: "default" or "first"
    limit,         \* the limit argument of SourceContext.extract
    dataset,       \* config.dataset.name of the context at work
    \* state that outlives a run
    tags,          \* the tag store: the keys that exist
    store,         \* the statement store: the entities persisted
    \* pipeline.run
    pc, run, incremental, cur, bulk,
    \* the extract generator of the current source
    exState, exPulled, exYielded, exTags0,
    \* the transform generator of the current source
    trIx, trActive, trCount, calls,
    \* what happened in this run
    hadTag, invoked, exhausted, puts, handed, loadRet, exportCalls,
    store0, prevRun,
    error,         \* the stage whose exception ended the run, "none" if none
    tags0,         \* the tag store when the run began
    loadIx,        \* ix of the default load handler
    loadValue,     \* loadValue[s]: what load returned for s
    \* the task contexts
    tasks,         \* tasks[t]: whether made, its proxies, and what went into it
    last,          \* the last call on a task context
    \* cache keys and the archive
    ck,            \* two calls of make_cache_key with one locator and arguments
    resource,      \* resource[u]: what is found at locator u
    archive,       \* the archive store: its entries
    acache,        \* the archive cache of anycache: its entries
    acall, aprev,  \* the last call of archive_source or open, and the one before
    \* the helpers of a context
    idc,           \* two calls of an identifier helper of a DatasetContext
    srcs,          \* the Source instances made, and what is at their locators
    skipc,         \* the last call of skip_cached_source
    exp,           \* the default export handler: its configuration and progress
    wr,            \* wr[p]: a process in archive_source, concurrent with another
    sctx           \* a call of get_source_context

inputs == <<nrec, ckey, fanout, loader, limit, dataset>>
persist == <<tags, store>>
ctl == <<pc, run, incremental, cur, bulk>>
exv == <<exState, exPulled, exYielded, exTags0>>
trv == <<trIx, trActive, trCount, calls>>
hist == <<hadTag, invoked, exhausted, puts, handed, loadRet, exportCalls, store0, prevRun>>
runv == <<error, tags0, loadIx, loadValue>>
taskv == <<tasks, last>>
archv == <<ck, resource, archive, acache, acall, aprev>>
auxv == <<idc, srcs, skipc, exp, wr, sctx>>
vars == <<inputs, persist, ctl, exv, trv, hist, runv, taskv, archv, auxv>>

(* ------------------------------ sources -------------------------------- *)
\* AllSources with config.extract.sources before the seed handler's sources
AllSources_StaticFirst == StaticSources \o SeedSources

\* DatasetContext.get_sources._sources: the seed handler's sources first,
\* the statically configured ones after them
AllSources == SeedSources \o StaticSources

SourceNames == {AllSources[i] : i \in 1..Len(AllSources)}

\* a truthy source.cache_key: distinct sources have distinct keys
CacheKeyOf(s) == <<"key", s>>

RECURSIVE Flatten(_)
Flatten(parts) ==
    IF parts = <<>> THEN <<>> ELSE Head(parts) \o Flatten(Tail(parts))

\* make_tag_key with the dataset name left out of the key
make_tag_key_NoDataset(parts) ==
    IF \E i \in 1..Len(parts) : parts[i] = NoKey
    THEN NoKey
    ELSE Flatten(parts)

\* DatasetContext.make_tag_key: None when a part is falsy, else the dataset
\* name joined with the parts
make_tag_key(parts) ==
    IF \E i \in 1..Len(parts) : parts[i] = NoKey
    THEN NoKey
    ELSE Flatten(<< <<dataset>> >> \o parts)

\* cache_key = self.make_tag_key("extract", self.source.cache_key)
ExtractTagKey(s) == make_tag_key(<<  <<"extract">>, ckey[s] >>)

(* ------------------------ SourceContext.extract ------------------------ *)
\* ExtractSkips with the existence test of line 273 inverted
ExtractSkips_Inverted(s) ==
    incremental /\ ExtractTagKey(s) # NoKey /\ ExtractTagKey(s) \notin tags

\* ExtractSkips without the test of settings.incremental of line 273
ExtractSkips_AnyMode(s) ==
    ExtractTagKey(s) # NoKey /\ ExtractTagKey(s) \in tags

\* line 273: incremental mode, a key, and a tag under it
ExtractSkips(s) ==
    incremental /\ ExtractTagKey(s) # NoKey /\ ExtractTagKey(s) \in tags

\* TagsAfter with the put of lines 297-298 in a finally clause
TagsAfter_Finally(s, how) ==
    IF how # "skip" /\ ExtractTagKey(s) # NoKey
    THEN tags \cup {ExtractTagKey(s)}
    ELSE tags

\* TagsAfter with the put of lines 297-298 left out
TagsAfter_NoPut(s, how) == tags

\* TagsAfter with the put of lines 297-298 also made when the generator is
\* closed at its yield
TagsAfter_OnClose(s, how) ==
    IF how \in {"exhausted", "limit", "close"} /\ ExtractTagKey(s) # NoKey
    THEN tags \cup {ExtractTagKey(s)}
    ELSE tags

\* lines 297-298, reached when the record loop ends without an exception:
\* how is "exhausted" (the handler's sequence ended), "limit" (_records
\* returned at ix > limit), "raise", "skip" or "close" (GeneratorExit thrown
\* in at the yield of line 288)
TagsAfter(s, how) ==
    IF how \in {"exhausted", "limit"} /\ ExtractTagKey(s) # NoKey
    THEN tags \cup {ExtractTagKey(s)}
    ELSE tags

\* line 283: _records returns once the handler's ix-th record exceeds the limit
OverLimit(ix) == limit # NoLimit /\ ix > limit

\* One next() on the generator extract(limit) of source s; res is what the
\* consumer gets: "record", "stop" (StopIteration) or "raise".
extract(s, res) ==
    /\ exState \in {"new", "running"}
    /\ exTags0' = IF exState = "new" THEN tags ELSE exTags0
    /\ hadTag' = IF exState = "new" /\ ExtractTagKey(s) \in tags
                 THEN hadTag \cup {s} ELSE hadTag
    /\ \/ \* lines 273-279: skipped, cached
          /\ exState = "new" /\ ExtractSkips(s)
          /\ res = "stop"
          /\ exState' = "done"
          /\ tags' = TagsAfter(s, "skip")
          /\ UNCHANGED <<exPulled, exYielded, invoked, exhausted, puts>>
       \/ \* line 282: the handler yields its next record
          /\ ~(exState = "new" /\ ExtractSkips(s))
          /\ exPulled < nrec[s]
          /\ invoked' = invoked \cup {s}
          /\ exPulled' = exPulled + 1
          /\ IF OverLimit(exPulled + 1)
             THEN /\ res = "stop"
                  /\ exState' = "done"
                  /\ tags' = TagsAfter(s, "limit")
                  /\ puts' = IF ExtractTagKey(s) # NoKey THEN puts \cup {s} ELSE puts
                  /\ UNCHANGED <<exYielded, exhausted>>
             ELSE /\ res = "record"
                  /\ exState' = "running"
                  /\ exYielded' = exYielded + 1
                  /\ UNCHANGED <<tags, puts, exhausted>>
       \/ \* line 282: the handler's sequence ends
          /\ ~(exState = "new" /\ ExtractSkips(s))
          /\ exPulled = nrec[s]
          /\ invoked' = invoked \cup {s}
          /\ exhausted' = exhausted \cup {s}
          /\ res = "stop"
          /\ exState' = "done"
          /\ tags' = TagsAfter(s, "exhausted")
          /\ puts' = IF ExtractTagKey(s) # NoKey THEN puts \cup {s} ELSE puts
          /\ UNCHANGED <<exPulled, exYielded>>
       \/ \* line 282: the handler raises instead of giving its next record
          /\ ~(exState = "new" /\ ExtractSkips(s))
          /\ invoked' = invoked \cup {s}
          /\ res = "raise"
          /\ exState' = "raised"
          /\ tags' = TagsAfter(s, "raise")
          /\ UNCHANGED <<exPulled, exYielded, exhausted, puts>>

(* ----------------------------- pipeline.run ---------------------------- *)
Src == AllSources[cur]

\* the entity the transform handler yields k-th for record n of source s
Entity(s, n, k) == [src |-> s, rec |-> n, k |-> k]

\* TransformIndex when enumerate starts at 0
TransformIndex_FromZero(n) == n - 1

\* line 314: enumerate(records, 1)
TransformIndex(n) == n

\* leaving "with ctx.store.writer() as bulk" by an exception: whether the
\* buffered entities reach the store is the writer's affair
StoreAfterError ==
    IF loader = "default" THEN {store, store \cup bulk} ELSE {store}

\* Propagate with the exception caught in the source loop of run
Propagate_Continue(stage) ==
    /\ pc' = "sources"
    /\ error' = stage
    /\ UNCHANGED <<tags0, loadIx, loadValue>>
    /\ store' \in StoreAfterError
    /\ loadRet' = [loadRet EXCEPT ![Src] = "raised"]
    /\ bulk' = {}

\* an exception of stage leaves load and then run, which catches nothing
Propagate(stage) ==
    /\ pc' = "raised"
    /\ error' = stage
    /\ UNCHANGED <<tags0, loadIx, loadValue>>
    /\ store' \in StoreAfterError
    /\ loadRet' = [loadRet EXCEPT ![Src] = "raised"]
    /\ bulk' = {}

\* run(), lines 33-38
run_start ==
    /\ pc \in {"idle", "done", "raised"}
    /\ run + 1 \in Runs
    /\ run' = run + 1
    /\ prevRun' = [pc |-> pc, incremental |-> incremental, dataset |-> dataset,
                   exhausted |-> exhausted]
    /\ incremental' \in BOOLEAN
    /\ pc' = "sources"
    /\ cur' = 0
    /\ bulk' = {}
    /\ exState' = "none" /\ exPulled' = 0 /\ exYielded' = 0 /\ exTags0' = {}
    /\ trIx' = 0 /\ trActive' = FALSE /\ trCount' = 0 /\ calls' = <<>>
    /\ hadTag' = {} /\ invoked' = {} /\ exhausted' = {} /\ puts' = {}
    /\ handed' = <<>>
    /\ loadRet' = [s \in SourceNames |-> "none"]
    /\ exportCalls' = 0
    /\ store0' = store
    /\ error' = "none"
    /\ tags0' = tags
    /\ loadIx' = 0
    /\ loadValue' = [s \in SourceNames |-> NoValue]
    /\ UNCHANGED <<inputs, persist, taskv, archv, auxv>>

\* run(), lines 39-42: the next source context; extract() and transform()
\* only build generators, load() enters the load handler
get_sources ==
    /\ pc = "sources"
    /\ IF cur < Len(AllSources)
       THEN /\ cur' = cur + 1
            /\ pc' = "load"
            /\ exState' = "new" /\ exPulled' = 0 /\ exYielded' = 0 /\ exTags0' = tags
            /\ trIx' = 0 /\ trActive' = FALSE /\ trCount' = 0
       ELSE /\ pc' = "export"
            /\ UNCHANGED <<cur, exv, trIx, trActive, trCount>>
    /\ bulk' = {}
    /\ loadIx' = 0
    /\ UNCHANGED <<inputs, persist, run, incremental, calls, hist, error, tags0,
                   loadValue, taskv, archv, auxv>>

\* the load handler got the end of the entity sequence
LoadLoopEnds ==
    IF loader = "default"
    THEN pc' = "commit" /\ UNCHANGED <<loadRet, bulk, loadValue>>
    ELSE /\ pc' = "sources"
         /\ loadRet' = [loadRet EXCEPT ![Src] = "returned"]
         /\ loadValue' = [loadValue EXCEPT ![Src] = NoValue]
         /\ UNCHANGED bulk

\* SourceContext.transform._proxies, line 314: the for loop asks extract for
\* the next record and, given one, calls the transform handler with it
transform ==
    /\ pc = "load" /\ ~trActive
    /\ \E res \in {"record", "stop", "raise"} :
        /\ extract(Src, res)
        /\ \/ /\ res = "record"
              /\ trIx' = trIx + 1
              /\ trActive' = TRUE
              /\ trCount' = 0
              /\ calls' = Append(calls, [src |-> Src, rec |-> exPulled',
                                          ix |-> TransformIndex(trIx + 1)])
              /\ UNCHANGED <<pc, store, loadRet, bulk, runv>>
           \/ /\ res = "stop"
              /\ LoadLoopEnds
              /\ UNCHANGED <<store, trIx, trActive, trCount, calls, error,
                             tags0, loadIx>>
           \/ /\ res = "raise"
              /\ Propagate("extract")
              /\ UNCHANGED <<trIx, trActive, trCount, calls>>
    /\ UNCHANGED <<inputs, run, incremental, cur, handed, exportCalls,
                   store0, prevRun, taskv, archv, auxv>>

\* LoadTakes with ix += 1 of logic/load.py line 22 left out
LoadTakes_NoCount(e) ==
    /\ handed' = Append(handed, e)
    /\ IF loader = "default"
       THEN /\ bulk' = bulk \cup {e}
            /\ UNCHANGED <<pc, loadRet, loadValue, loadIx>>
       ELSE /\ pc' = "sources"
            /\ loadRet' = [loadRet EXCEPT ![Src] = "returned"]
            /\ loadValue' = [loadValue EXCEPT ![Src] = NoValue]
            /\ UNCHANGED <<bulk, loadIx>>

\* the load handler takes one entity: logic/load.py lines 20-22, or
\* tests/fixtures/custom.py lines 23-25 (writes the first one and returns)
LoadTakes(e) ==
    /\ handed' = Append(handed, e)
    /\ IF loader = "default"
       THEN /\ bulk' = bulk \cup {e}
            /\ loadIx' = loadIx + 1
            /\ UNCHANGED <<pc, loadRet, loadValue>>
       ELSE /\ pc' = "sources"
            /\ loadRet' = [loadRet EXCEPT ![Src] = "returned"]
            /\ loadValue' = [loadValue EXCEPT ![Src] = NoValue]
            /\ UNCHANGED <<bulk, loadIx>>

\* line 315: yield from self.config.transform.handle(self, record, ix), one
\* next() on the handler's generator for the current record
transform_handle ==
    /\ pc = "load" /\ trActive
    /\ \/ /\ trCount < fanout[Src]
          /\ trCount' = trCount + 1
          /\ LoadTakes(Entity(Src, calls[Len(calls)].rec, trCount + 1))
          /\ UNCHANGED <<store, trActive, error, tags0>>
       \/ /\ trCount = fanout[Src]
          /\ trActive' = FALSE
          /\ UNCHANGED <<pc, store, loadRet, bulk, trCount, handed, runv>>
       \/ /\ Propagate("transform")
          /\ UNCHANGED <<trActive, trCount, handed>>
    /\ UNCHANGED <<inputs, tags, run, incremental, cur, exv, trIx, calls,
                   hadTag, invoked, exhausted, puts, exportCalls, store0, prevRun, taskv, archv, auxv>>

\* logic/load.py lines 19-23: leaving the writer's scope commits, then the
\* handler returns its count
load_commit ==
    /\ pc = "commit"
    /\ \/ /\ store' = store \cup bulk
          /\ loadRet' = [loadRet EXCEPT ![Src] = "returned"]
          /\ loadValue' = [loadValue EXCEPT ![Src] = loadIx]
          /\ pc' = "sources"
          /\ UNCHANGED error
       \/ /\ store' = store
          /\ loadRet' = [loadRet EXCEPT ![Src] = "raised"]
          /\ pc' = "raised"
          /\ error' = "load"
          /\ UNCHANGED loadValue
    /\ bulk' = {}
    /\ UNCHANGED <<tags0, loadIx>>
    /\ UNCHANGED <<inputs, tags, run, incremental, cur, exv, trv,
                   hadTag, invoked, exhausted, puts, handed, exportCalls, store0, prevRun,
                   taskv, archv, auxv>>

\* what a call of the export handler comes to: it returns an index that is
\* truthy, or a falsy value, or it raises
ExportOutcomes == {"truthy", "falsy", "raise"}

\* run(), lines 43-46: first is the outcome of ctx.export() at line 43,
\* second that of the call at line 45, made when an index uri is configured
\* and the first index is falsy; a falsy second index has no model_dump_json
\* at line 46
export ==
    /\ pc = "export"
    /\ \E index_uri \in BOOLEAN, first \in ExportOutcomes, second \in ExportOutcomes :
          /\ exportCalls' = IF index_uri /\ first = "falsy" THEN 2 ELSE 1
          /\ error' = CASE first = "raise" -> "export"
                         [] index_uri /\ first = "falsy" /\ second = "raise" -> "export"
                         [] index_uri /\ first = "falsy" /\ second = "falsy" -> "run"
                         [] OTHER -> "none"
          /\ pc' = IF error' = "none" THEN "done" ELSE "raised"
    /\ UNCHANGED <<tags0, loadIx, loadValue>>
    /\ UNCHANGED <<inputs, persist, run, incremental, cur, bulk, exv, trv,
                   hadTag, invoked, exhausted, puts, handed, loadRet, store0, prevRun,
                   taskv, archv, auxv>>

(* ----------------------------- TaskContext ----------------------------- *)
\* at most this many identified entities are emitted, over all tasks
MaxEmits == 3
\* the numbers of arguments of one emit call
ArgCounts == 0..2

TaskIds == {"t1", "t2"}
\* proxy.id of an entity without identifier (None or "")
NoId == ""
Ids == {"x", "y"}

\* the None that emit skips
Null == [none |-> TRUE, id |-> NoId, props |-> {}]
\* two entities that share an identifier, and one with another
Identified ==
    {[none |-> FALSE, id |-> "x", props |-> {"a"}],
     [none |-> FALSE, id |-> "x", props |-> {"b"}],
     [none |-> FALSE, id |-> "y", props |-> {"a"}]}
Unidentified == {[none |-> FALSE, id |-> NoId, props |-> {"a"}]}
EmitArgs == Identified \cup Unidentified \cup {Null}

\* the argument tuples of an emit call
ArgTuples == UNION {[1..m -> EmitArgs] : m \in ArgCounts}

\* ftmq.aggregate.merge, used in line 413: p1 takes the property values of
\* p2 and is the result
merge(p1, p2) == [p1 EXCEPT !.props = p1.props \cup p2.props]

\* "proxy.id in self.proxies"; proxies is a dict, kept as its items in
\* insertion order
HasKey(proxies, key) == \E i \in 1..Len(proxies) : proxies[i].key = key

KeyIndex(proxies, key) == CHOOSE i \in 1..Len(proxies) : proxies[i].key = key

\* self.proxies[key] = val
SetItem(proxies, key, val) ==
    IF HasKey(proxies, key)
    THEN [proxies EXCEPT ![KeyIndex(proxies, key)] = [key |-> key, val |-> val]]
    ELSE Append(proxies, [key |-> key, val |-> val])

\* emit_one with the merge of line 413 replaced by a plain assignment
emit_one_Overwrite(proxies, proxy) ==
    IF proxy.none THEN [proxies |-> proxies, err |-> "none"]
    ELSE IF proxy.id = NoId THEN [proxies |-> proxies, err |-> "DataError"]
    ELSE [proxies |-> SetItem(proxies, proxy.id, proxy), err |-> "none"]

\* emit_one that logs and skips an entity without identifier
emit_one_SkipNoId(proxies, proxy) ==
    IF proxy.none \/ proxy.id = NoId THEN [proxies |-> proxies, err |-> "none"]
    ELSE IF HasKey(proxies, proxy.id)
    THEN [proxies |-> SetItem(proxies, proxy.id,
                              merge(proxies[KeyIndex(proxies, proxy.id)].val, proxy)),
          err |-> "none"]
    ELSE [proxies |-> SetItem(proxies, proxy.id, proxy), err |-> "none"]

\* emit_one without the identifier test of lines 409-410
emit_one_NoIdCheck(proxies, proxy) ==
    IF proxy.none THEN [proxies |-> proxies, err |-> "none"]
    ELSE IF HasKey(proxies, proxy.id)
    THEN [proxies |-> SetItem(proxies, proxy.id,
                              merge(proxies[KeyIndex(proxies, proxy.id)].val, proxy)),
          err |-> "none"]
    ELSE [proxies |-> SetItem(proxies, proxy.id, proxy), err |-> "none"]

\* TaskContext.emit, lines 408-415: the body of the loop for one argument
emit_one(proxies, proxy) ==
    IF proxy.none THEN [proxies |-> proxies, err |-> "none"]
    ELSE IF proxy.id = NoId THEN [proxies |-> proxies, err |-> "DataError"]
    ELSE IF HasKey(proxies, proxy.id)
    THEN [proxies |-> SetItem(proxies, proxy.id,
                              merge(proxies[KeyIndex(proxies, proxy.id)].val, proxy)),
          err |-> "none"]
    ELSE [proxies |-> SetItem(proxies, proxy.id, proxy), err |-> "none"]

\* emit with the loop of line 407 going through the arguments last to first
RECURSIVE emit_Reversed(_, _)
emit_Reversed(proxies, args) ==
    IF args = <<>> THEN [proxies |-> proxies, err |-> "none", done |-> 0]
    ELSE LET one == emit_one(proxies, args[Len(args)]) IN
         IF one.err # "none" THEN [proxies |-> proxies, err |-> one.err, done |-> 0]
         ELSE LET rest == emit_Reversed(one.proxies, SubSeq(args, 1, Len(args) - 1)) IN
              [rest EXCEPT !.done = rest.done + 1]

\* emit that puts the accumulator back as it was when an argument raises
RECURSIVE emit_Rollback(_, _)
emit_Rollback(proxies, args) ==
    IF args = <<>> THEN [proxies |-> proxies, err |-> "none", done |-> 0]
    ELSE LET one == emit_one(proxies, Head(args)) IN
         IF one.err # "none" THEN [proxies |-> proxies, err |-> one.err, done |-> 0]
         ELSE LET rest == emit_Rollback(one.proxies, Tail(args)) IN
              IF rest.err # "none" THEN [proxies |-> proxies, err |-> rest.err, done |-> 0]
              ELSE [rest EXCEPT !.done = rest.done + 1]

\* TaskContext.emit, line 407: the loop over the arguments, left at the
\* first that raises; done counts the arguments gone through
RECURSIVE emit(_, _)
emit(proxies, args) ==
    IF args = <<>> THEN [proxies |-> proxies, err |-> "none", done |-> 0]
    ELSE LET one == emit_one(proxies, Head(args)) IN
         IF one.err # "none" THEN [proxies |-> proxies, err |-> one.err, done |-> 0]
         ELSE LET rest == emit(one.proxies, Tail(args)) IN
              [rest EXCEPT !.done = rest.done + 1]

\* TaskContext.__iter__: yield from self.proxies.values()
TaskIter(proxies) == [i \in 1..Len(proxies) |-> proxies[i].val]

\* the fields model_dump gives for a SourceContext
SourceCtx == [config |-> "config", source |-> "source"]

\* TaskContext(**fields): the proxies given, else the default {}
TaskContext(fields) ==
    [config |-> fields.config,
     source |-> fields.source,
     proxies |-> IF "proxies" \in DOMAIN fields THEN fields.proxies ELSE <<>>]

\* SourceContext.task: TaskContext(**self.model_dump())
task(ctx) == TaskContext(ctx)

\* tasks[t]: ctx holds the fields of the context; base is what its proxies
\* were when it was made, log the non-null entities emit has gone through
NoTask == [made |-> FALSE, ctx |-> SourceCtx, base |-> <<>>, log |-> <<>>]
\* last: the call, the task it was made on, for an emit whether an argument
\* was an entity without identifier, its arguments, the proxies before it, the number of
\* entities it went through and the error, for an iteration the entities
\* yielded
NoCall == [op |-> "none", task |-> "t1", noid |-> FALSE, args |-> <<>>, before |-> <<>>,
           n |-> 0, err |-> "none", out |-> <<>>]

\* the contexts there are: the source context and the task contexts made
Contexts == {SourceCtx} \cup {tasks[t].ctx : t \in {u \in TaskIds : tasks[u].made}}

\* the non-null arguments of the first n
Emitted(args, n) == SelectSeq(SubSeq(args, 1, n), LAMBDA a : ~a.none)

TotalLog == Len(tasks["t1"].log) + Len(tasks["t2"].log)

PipelineUnchanged == UNCHANGED <<inputs, persist, ctl, exv, trv, hist, runv, archv, auxv>>

\* ctx.task() on the source context or on a task context
task_call(t) ==
    /\ ~tasks[t].made
    /\ \E ctx \in Contexts :
          tasks' = [tasks EXCEPT ![t] =
                      [made |-> TRUE, ctx |-> task(ctx), base |-> task(ctx).proxies,
                       log |-> <<>>]]
    /\ last' = [NoCall EXCEPT !.op = "task", !.task = t]
    /\ PipelineUnchanged

\* tctx.emit(*args)
emit_call(t) ==
    /\ tasks[t].made
    /\ \E args \in ArgTuples :
          LET got == emit(tasks[t].ctx.proxies, args) IN
          /\ TotalLog + Len(Emitted(args, got.done)) <= MaxEmits
          /\ tasks' = [tasks EXCEPT
                         ![t].ctx.proxies = got.proxies,
                         ![t].log = tasks[t].log \o Emitted(args, got.done)]
          /\ last' = [op |-> "emit", task |-> t,
                      noid |-> \E i \in 1..Len(args) : args[i] \in Unidentified,
                      args |-> args,
                      before |-> tasks[t].ctx.proxies,
                      n |-> Len(Emitted(args, got.done)),
                      err |-> got.err, out |-> <<>>]
    /\ PipelineUnchanged

\* yield from tctx: the transform handler hands the task's entities on
task_iter(t) ==
    /\ tasks[t].made
    /\ last' = [NoCall EXCEPT !.op = "iter", !.task = t,
                              !.out = TaskIter(tasks[t].ctx.proxies)]
    /\ UNCHANGED tasks
    /\ PipelineUnchanged

(* ----------------------------- cache keys ----------------------------- *)
\* locators, as urlsplit gives them: scheme, netloc, path, query, fragment
Uris == {<<"http", "host", "a.csv", "", "">>, <<"https", "host", "b.csv", "", "">>}

\* info.cache_key of a resource that gives no etag or mtime signal
NoSignal == ""
Signals == {NoSignal, "e1", "e2"}
\* info.model_dump_json()
Metas == {"m1", "m2"}
\* the bytes found at a locator
Contents == {"c1", "c2"}

\* what Source(uri=url).info() and open_virtual(url) find at a locator
Resources == [signal : Signals, meta : Metas, content : Contents]

\* the positional and keyword arguments that follow the locator in a call;
\* keyword arguments are name/value pairs
Opts ==
    { [args |-> <<>>, kw |-> {}],
      [args |-> <<"x">>, kw |-> {}],
      [args |-> <<>>, kw |-> {<<"url_key_only", "True">>}],
      [args |-> <<>>, kw |-> {<<"cache", "False">>}],
      [args |-> <<>>, kw |-> {<<"raise_on_error", "False">>}],
      [args |-> <<>>, kw |-> {<<"delay", "1">>, <<"stealthy", "True">>}],
      [args |-> <<>>, kw |-> {<<"use_checksum", "False">>}] }

\* kwargs.pop(name, default): the value, and the kwargs that remain
Get(kwargs, name, default) ==
    IF \E p \in kwargs : p[1] = name
    THEN (CHOOSE p \in kwargs : p[1] = name)[2]
    ELSE default

Pop(kwargs, name) == {p \in kwargs : p[1] # name}

\* the truth value of an argument
Truthy(v) == v \notin {"False", "None", "", "0"}

\* anystore.util.make_data_checksum: a hash of the data, one-to-one as far
\* as this model goes
make_data_checksum(data) == <<"sha1">> \o data

\* fh.checksum of open_virtual: the checksum of the content
ContentChecksum(content) == <<"checksum", content>>

\* lines 45-47 of archive.py, 26-28 of cache.py
WithoutPacing(kwargs) == Pop(Pop(Pop(kwargs, "delay"), "stealthy"), "timeout")

\* archive.make_cache_key with the freshness of the resource left out
archive_make_cache_key_UrlOnly(url, args, kwargs, r) ==
    IF Get(WithoutPacing(kwargs), "cache", "None") = "False"
    THEN NoKey
    ELSE make_data_checksum(
            <<url>> \o args
                \o <<Pop(Pop(WithoutPacing(kwargs), "cache"), "url_key_only")>>)

\* archive.make_cache_key(url, *args, **kwargs); r is what is at url
archive_make_cache_key(url, args, kwargs, r) ==
    LET kw1 == WithoutPacing(kwargs)
        kw2 == Pop(kw1, "cache")
        kw3 == Pop(kw2, "url_key_only")
    IN  IF Get(kw1, "cache", "None") = "False"
        THEN NoKey
        ELSE IF ~Truthy(Get(kw2, "url_key_only", "False"))
        THEN IF Truthy(r.signal)
             THEN make_data_checksum(<<url, r.signal>> \o args \o <<kw3>>)
             ELSE make_data_checksum(<<url, r.meta>> \o args \o <<kw3>>)
        ELSE make_data_checksum(<<url>> \o args \o <<kw3>>)

\* cache.make_cache_key(url, *args, **kwargs); r is what is at url
cache_make_cache_key(url, args, kwargs, r) ==
    LET kw1 == WithoutPacing(kwargs)
        kw2 == Pop(kw1, "cache")
        kw3 == Pop(kw2, "url_key_only")
        kw4 == Pop(kw3, "use_checksum")
    IN  IF Get(kw1, "cache", "None") = "False"
        THEN NoKey
        ELSE IF ~Truthy(Get(kw2, "url_key_only", "False"))
        THEN IF Truthy(r.signal)
             THEN make_data_checksum(<<url, r.signal>> \o args \o <<kw3>>)
             ELSE IF Truthy(Get(kw3, "use_checksum", "True"))
             THEN ContentChecksum(r.content)
             ELSE make_data_checksum(<<url, r.meta>> \o args \o <<kw4>>)
        ELSE make_data_checksum(<<url>> \o args \o <<kw3>>)

\* the two functions of that name
KeyFuncs == {"archive", "cache"}

make_cache_key(module, url, args, kwargs, r) ==
    IF module = "archive"
    THEN archive_make_cache_key(url, args, kwargs, r)
    ELSE cache_make_cache_key(url, args, kwargs, r)

\* ck: the function, the locator and arguments, what was at the locator at
\* the first and at the second call, and the keys returned
NoProbe ==
    [calls |-> 0, module |-> "archive",
     url |-> CHOOSE u \in Uris : TRUE, opt |-> [args |-> <<>>, kw |-> {}],
     r1 |-> [signal |-> NoSignal, meta |-> "m1", content |-> "c1"], k1 |-> NoKey,
     r2 |-> [signal |-> NoSignal, meta |-> "m1", content |-> "c1"], k2 |-> NoKey]

PipelineIdle == UNCHANGED <<inputs, persist, ctl, exv, trv, hist, runv, taskv, auxv>>

\* make_cache_key(url, *args, **kwargs) is called
call_make_cache_key ==
    /\ pc = "keys"
    /\ \/ /\ ck.calls = 0
          /\ ck' = [ck EXCEPT !.calls = 1,
                      !.k1 = make_cache_key(ck.module, ck.url, ck.opt.args,
                                            ck.opt.kw, ck.r1)]
       \/ /\ ck.calls = 1
          /\ ck' = [ck EXCEPT !.calls = 2,
                      !.k2 = make_cache_key(ck.module, ck.url, ck.opt.args,
                                            ck.opt.kw, ck.r2)]
    /\ UNCHANGED <<resource, archive, acache, acall, aprev>>
    /\ PipelineIdle

\* between the two calls the resource at the locator changes, or does not
resource_changes ==
    /\ pc = "keys"
    /\ ck.calls = 1
    /\ \E r \in Resources : ck' = [ck EXCEPT !.r2 = r]
    /\ UNCHANGED <<resource, archive, acache, acall, aprev>>
    /\ PipelineIdle

(* ------------------------------- archive ------------------------------ *)
\* anystore.util.join_relpaths: the non-empty parts, joined by "/"
join_relpaths(parts) == SelectSeq(parts, LAMBDA part : part # "")

\* make_archive_key: urlsplit(uri)[1:], the scheme left out
make_archive_key(uri) == join_relpaths(Tail(uri))

\* what is found at the locator of a behaviour, at one time or another
ArchiveResources ==
    { [signal |-> "e1", meta |-> "m1", content |-> "c1"],
      [signal |-> "e1", meta |-> "m1", content |-> "c2"],
      [signal |-> "e2", meta |-> "m1", content |-> "c2"],
      [signal |-> NoSignal, meta |-> "m1", content |-> "c1"] }

\* the keyword arguments of the calls of archive_source and open
ArchiveOpts == {o \in Opts : o.args = <<>> /\ Get(o.kw, "use_checksum", "") = ""
                                /\ Get(o.kw, "delay", "") = ""}

\* how the body of archive_source comes out: the content is fetched and
\* written; open_virtual fails; the write to the archive fails and leaves
\* no entry, or leaves a truncated one
Outcomes == {"ok", "fetch", "write", "partial"}

\* the bytes of an entry whose write did not come to its end
Truncated == "truncated"

\* a blob store: entries [key, bytes], one per key
HasEntry(st, key) == \E e \in st : e.key = key
EntryOf(st, key) == CHOOSE e \in st : e.key = key
Put(st, key, bytes) == {e \in st : e.key # key} \cup {[key |-> key, bytes |-> bytes]}

\* the body of archive_source, lines 73-91; r is what is at uri, st the
\* archive store
archive_source(uri, kwargs, r, outcome, st) ==
    LET key == make_archive_key(uri)
        full == Append(key, ContentChecksum(r.content))
        raise_on_error == Truthy(Get(kwargs, "raise_on_error", "True"))
    IN  CASE outcome = "ok" ->
               [key |-> full, raised |-> FALSE,
                archive |-> Put(st, full, r.content),
                fetched |-> TRUE, wrote |-> TRUE, failed |-> "none"]
          [] outcome = "fetch" ->
               [key |-> key, raised |-> raise_on_error,
                archive |-> st,
                fetched |-> TRUE, wrote |-> FALSE, failed |-> "fetch"]
          [] outcome = "write" ->
               [key |-> full, raised |-> raise_on_error,
                archive |-> st,
                fetched |-> TRUE, wrote |-> TRUE, failed |-> "write"]
          [] outcome = "partial" ->
               [key |-> full, raised |-> raise_on_error,
                archive |-> Put(st, full, Truncated),
                fetched |-> TRUE, wrote |-> TRUE, failed |-> "write"]

\* anycache with the cache never looked up
anycache_NoLookup(uri, args, kwargs, r, outcome, st, cache) ==
    LET body == archive_source(uri, kwargs, r, outcome, st)
    IN  [key |-> body.key, raised |-> body.raised, archive |-> body.archive,
         fetched |-> body.fetched, wrote |-> body.wrote, failed |-> body.failed,
         hit |-> FALSE, ckey |-> archive_make_cache_key(uri, args, kwargs, r),
         acache |-> cache]

\* @anycache(key_func=make_cache_key, store=get_archive_cache()), line 59:
\* a value stored under the cache key answers the call; otherwise the body
\* runs and what it returns is stored under the cache key, if there is one
anycache(uri, args, kwargs, r, outcome, st, cache) ==
    LET k == archive_make_cache_key(uri, args, kwargs, r)
        body == archive_source(uri, kwargs, r, outcome, st)
    IN  IF k # NoKey /\ HasEntry(cache, k)
        THEN [key |-> EntryOf(cache, k).bytes, raised |-> FALSE, archive |-> st,
              fetched |-> FALSE, wrote |-> FALSE, failed |-> "none",
              hit |-> TRUE, ckey |-> k, acache |-> cache]
        ELSE [key |-> body.key, raised |-> body.raised, archive |-> body.archive,
              fetched |-> body.fetched, wrote |-> body.wrote, failed |-> body.failed,
              hit |-> FALSE, ckey |-> k,
              acache |-> IF k # NoKey /\ ~body.raised
                         THEN Put(cache, k, body.key) ELSE cache]

\* archive.open, lines 104-112: the keyword arguments it passes on
OpenKwargs(kw) ==
    { <<"cache", Get(kw, "cache", "True")>>,
      <<"stealthy", Get(kw, "stealthy", "False")>>,
      <<"delay", Get(kw, "delay", "None")>>,
      <<"raise_on_error", Get(kw, "raise_on_error", "True")>>,
      <<"url_key_only", Get(kw, "url_key_only", "False")>> }
    \cup {p \in kw : p[1] \notin {"cache", "stealthy", "delay", "raise_on_error",
                                   "url_key_only"}}

\* archive.open(key, mode) of the store, line 114: the bytes of the entry,
\* or an error when there is none
StoreOpen(st, key) == IF HasEntry(st, key) THEN EntryOf(st, key).bytes ELSE "raise"

NoArchiveCall ==
    [op |-> "none", uri |-> CHOOSE u \in Uris : TRUE, kw |-> {},
     r |-> CHOOSE r \in ArchiveResources : TRUE,
     key |-> <<>>, raised |-> FALSE, fetched |-> FALSE, wrote |-> FALSE,
     failed |-> "none", hit |-> FALSE, opened |-> "none"]

\* a behaviour is about one locator, and has two calls
MayCall(u) == aprev.op = "none" /\ (acall.op = "none" \/ acall.uri = u)

Called(op, u, kw, got, opened) ==
    [op |-> op, uri |-> u, kw |-> kw, r |-> resource[u],
     key |-> IF got.raised THEN <<>> ELSE got.key,
     raised |-> got.raised, fetched |-> got.fetched, wrote |-> got.wrote,
     failed |-> got.failed, hit |-> got.hit, opened |-> opened]

\* archive_source(uri, **kwargs)
archive_source_call ==
    /\ pc = "archive"
    /\ \E u \in Uris, o \in ArchiveOpts, outcome \in Outcomes :
          /\ MayCall(u)
          /\ LET got == anycache(u, o.args, o.kw, resource[u], outcome,
                                 archive, acache)
             IN  /\ archive' = got.archive
                 /\ acache' = got.acache
                 /\ acall' = Called("archive_source", u, o.kw, got, "none")
    /\ aprev' = acall
    /\ UNCHANGED <<ck, resource>>
    /\ PipelineIdle

\* archive.open(url, **kwargs), lines 94-114
open_call ==
    /\ pc = "archive"
    /\ \E u \in Uris, o \in ArchiveOpts, outcome \in Outcomes :
          /\ MayCall(u)
          /\ LET got == anycache(u, <<>>, OpenKwargs(o.kw), resource[u], outcome,
                                 archive, acache)
             IN  /\ archive' = got.archive
                 /\ acache' = got.acache
                 /\ acall' = Called("open", u, o.kw, got,
                                    IF got.raised THEN "none"
                                    ELSE StoreOpen(got.archive, got.key))
    /\ aprev' = acall
    /\ UNCHANGED <<ck, resource>>
    /\ PipelineIdle

\* what is at the locator changes
archive_resource_changes ==
    /\ pc = "archive"
    /\ \E u \in Uris, r \in ArchiveResources :
          /\ MayCall(u)
          /\ r # resource[u]
          /\ resource' = [resource EXCEPT ![u] = r]
    /\ UNCHANGED <<ck, archive, acache, acall, aprev>>
    /\ PipelineIdle

(* ------------------------- identifier helpers ------------------------- *)
\* None, as an argument or as what a function returns
None == "None"

\* the parts the helpers are called with
PartValues == {"a", "B c", "!!", "", None}
\* the argument tuples of a call
PartTuples == UNION {[1..m -> PartValues] : m \in 0..2}
\* config.dataset.prefix
DatasetPrefixes == {None, "pre"}
\* the keyword arguments of a call
IdKwargs ==
    {p \cup q : p \in {{}} \cup {{<<"prefix", v>>} : v \in {"pre", "alt", "!!", "", None}},
                q \in {{}, {<<"strict", "False">>}}}

\* normality.slugify(value, sep="-"): lower case, runs of other characters
\* than letters and digits made one separator; None when nothing is left.
\* The values of this model other than "B c" are slugs already, or leave
\* nothing.
slugify(value) ==
    CASE value \in {"!!", "", None} -> None
      [] value = "B c" -> "b-c"
      [] value = "http://host/a.csv" -> "http-host-a-csv"
      [] value = "https://host/b.csv" -> "https-host-b-csv"
      [] OTHER -> value

RECURSIVE JoinWith(_, _)
\* sep.join(texts)
JoinWith(sep, texts) ==
    IF texts = <<>> THEN ""
    ELSE IF Len(texts) = 1 THEN texts[1]
    ELSE texts[1] \o sep \o JoinWith(sep, Tail(texts))

\* ftmq.util.join_slug(*parts, prefix=prefix, strict=strict): None when a
\* part leaves no slug (strict) or no part does, else the slugs of the
\* prefix and the parts joined by "-"; no slug here comes near max_len
join_slug(parts, prefix, strict) ==
    LET sections == [i \in 1..Len(parts) |-> slugify(parts[i])]
        texts == SelectSeq(sections, LAMBDA p : p # None)
    IN  IF strict /\ \E i \in 1..Len(sections) : sections[i] = None THEN None
        ELSE IF texts = <<>> THEN None
        ELSE IF slugify(prefix) # None
        THEN JoinWith("-", <<slugify(prefix)>> \o texts)
        ELSE JoinWith("-", texts)

\* followthemoney.util.make_entity_id(*parts): the SHA1 of the parts' bytes
\* one after another, None when they are no bytes at all
make_entity_id(parts) ==
    LET bytes == JoinWith("", [i \in 1..Len(parts) |->
                                  IF parts[i] = None THEN "" ELSE parts[i]])
    IN  IF bytes = "" THEN None ELSE "sha1" \o bytes

\* ftmq.util.make_fingerprint: the value's words in lower case, None when
\* there is none
make_fingerprint(value) ==
    CASE value \in {"!!", "", None} -> None
      [] value = "B c" -> "b c"
      [] OTHER -> value

\* ftmq.util.make_fingerprint_id(*args)
ftmq_make_fingerprint_id(parts) ==
    make_entity_id([i \in 1..Len(parts) |-> make_fingerprint(parts[i])])

\* what a helper comes to: the identifier returned, or the exception raised
Returned(id) == [raised |-> "none", id |-> id]
Raised(exc) == [raised |-> exc, id |-> None]

\* DatasetContext.prefix, lines 53-55
ContextPrefix(dprefix) == IF Truthy(dprefix) THEN dprefix ELSE dataset

\* make_slug without the test of lines 207-208
make_slug_NoCheck(dprefix, args, kwargs) ==
    Returned(join_slug(args, Get(kwargs, "prefix", ContextPrefix(dprefix)),
                       Truthy(Get(Pop(kwargs, "prefix"), "strict", "True"))))

\* DatasetContext.make_slug(*args, **kwargs), lines 205-209
make_slug(dprefix, args, kwargs) ==
    LET prefix == Get(kwargs, "prefix", ContextPrefix(dprefix))
        slug == join_slug(args, prefix,
                          Truthy(Get(Pop(kwargs, "prefix"), "strict", "True")))
    IN  IF ~Truthy(slug) THEN Raised("ValueError") ELSE Returned(slug)

\* DatasetContext.make_id(*args, **kwargs), lines 225-229
make_id(dprefix, args, kwargs) ==
    LET prefix == Get(kwargs, "prefix", ContextPrefix(dprefix))
        id_ == join_slug(<<make_entity_id(args)>>, prefix, TRUE)
    IN  IF ~Truthy(id_) THEN Raised("ValueError") ELSE Returned(id_)

\* DatasetContext.make_fingerprint_id(*args, **kwargs), lines 245-249
make_fingerprint_id(dprefix, args, kwargs) ==
    LET prefix == Get(kwargs, "prefix", ContextPrefix(dprefix))
        id_ == join_slug(<<ftmq_make_fingerprint_id(args)>>, prefix, TRUE)
    IN  IF ~Truthy(id_) THEN Raised("ValueError") ELSE Returned(id_)

IdHelpers == {"make_slug", "make_id", "make_fingerprint_id"}

IdHelper(fn, dprefix, args, kwargs) ==
    CASE fn = "make_slug" -> make_slug(dprefix, args, kwargs)
      [] fn = "make_id" -> make_id(dprefix, args, kwargs)
      [] fn = "make_fingerprint_id" -> make_fingerprint_id(dprefix, args, kwargs)

\* idc: the helper and its parts, the dataset prefix and the keyword
\* arguments of the first and of the second call, and what each came to
NoIdCall ==
    [calls |-> 0, fn |-> "make_slug", args |-> <<>>,
     dprefix1 |-> None, kw1 |-> {}, r1 |-> Raised("none"),
     dprefix2 |-> None, kw2 |-> {}, r2 |-> Raised("none")]

\* ctx.make_slug(*args, **kwargs), ctx.make_id(...) or
\* ctx.make_fingerprint_id(...) is called, a first and a second time
id_helper_call ==
    /\ pc = "ids"
    /\ \/ /\ idc.calls = 0
          /\ idc' = [idc EXCEPT !.calls = 1,
                        !.r1 = IdHelper(idc.fn, idc.dprefix1, idc.args, idc.kw1)]
       \/ /\ idc.calls = 1
          /\ \E dprefix \in DatasetPrefixes, kw \in IdKwargs :
                idc' = [idc EXCEPT !.calls = 2, !.dprefix2 = dprefix, !.kw2 = kw,
                           !.r2 = IdHelper(idc.fn, dprefix, idc.args, kw)]
    /\ UNCHANGED <<srcs, skipc, exp, wr, sctx>>
    /\ UNCHANGED <<inputs, persist, ctl, exv, trv, hist, runv, taskv, archv>>

(* -------------------------------- Source ------------------------------ *)
\* at most this many times is one Source asked for info() or mimetype
MaxAsks == 3

SourceIds == {"s1", "s2"}
\* the locators Sources are made with
SourceUris == {"http://host/a.csv", "https://host/b.csv", ""}
\* the data Source(**data) is called with: a uri, and a name or none
SourceData ==
    {{<<"uri", u>>} \cup n : u \in SourceUris,
                             n \in {{}} \cup {{<<"name", v>>} : v \in {"n", "", None}}}

\* what UriResource(uri).info() finds, at one time and at another
StatsValues == {"stats1", "stats2"}

\* Source.__init__, lines 27-30; pydantic takes a str for name, and no None
Source(data) ==
    LET name == Get(data, "name", slugify(Get(data, "uri", None)))
    IN  IF name = None
        THEN [made |-> FALSE, raised |-> "ValidationError", name |-> None,
              uri |-> Get(data, "uri", None), uri0 |-> Get(data, "uri", None),
              named |-> FALSE, info |-> None, got |-> None, asked |-> 0, probes |-> 0]
        ELSE [made |-> TRUE, raised |-> "none", name |-> name,
              uri |-> Get(data, "uri", None), uri0 |-> Get(data, "uri", None),
              named |-> \E p \in data : p[1] = "name",
              info |-> None, got |-> None, asked |-> 0, probes |-> 0]

\* no instance: nothing was constructed
NoSource ==
    [made |-> FALSE, raised |-> "none", name |-> None, uri |-> None, uri0 |-> None,
     named |-> FALSE, info |-> None, got |-> None, asked |-> 0, probes |-> 0]

\* Source.info, lines 40-43; stats is what resource.info() finds now
SourceInfo(obj, stats) ==
    IF obj.info = None
    THEN [obj EXCEPT !.info = stats, !.got = stats,
                     !.asked = obj.asked + 1, !.probes = obj.probes + 1]
    ELSE [obj EXCEPT !.got = obj.info, !.asked = obj.asked + 1]

\* Source.mimetype, lines 36-38: self.resource.info().mimetype
SourceMimetype(obj, stats) ==
    [obj EXCEPT !.got = stats, !.asked = obj.asked + 1, !.probes = obj.probes + 1]

\* Source(**data)
source_init(i) ==
    /\ pc = "source"
    /\ ~srcs.obj[i].made /\ srcs.obj[i].raised = "none"
    /\ \E data \in SourceData : srcs' = [srcs EXCEPT !.obj[i] = Source(data)]
    /\ UNCHANGED <<idc, skipc, exp, wr, sctx>>
    /\ UNCHANGED <<inputs, persist, ctl, exv, trv, hist, runv, taskv, archv>>

\* source.info(), as cache.make_cache_key and a stage ask for it
source_info(i) ==
    /\ pc = "source"
    /\ srcs.obj[i].made /\ srcs.obj[i].asked < MaxAsks
    /\ srcs' = [srcs EXCEPT !.obj[i] = SourceInfo(srcs.obj[i], srcs.stats)]
    /\ UNCHANGED <<idc, skipc, exp, wr, sctx>>
    /\ UNCHANGED <<inputs, persist, ctl, exv, trv, hist, runv, taskv, archv>>

\* source.mimetype, as extract_pandas asks for it at line 18 of
\* logic/extract.py when the playbook names no read handler
source_mimetype(i) ==
    /\ pc = "source"
    /\ srcs.obj[i].made /\ srcs.obj[i].asked < MaxAsks
    /\ srcs' = [srcs EXCEPT !.obj[i] = SourceMimetype(srcs.obj[i], srcs.stats)]
    /\ UNCHANGED <<idc, skipc, exp, wr, sctx>>
    /\ UNCHANGED <<inputs, persist, ctl, exv, trv, hist, runv, taskv, archv>>

\* what is at the locators changes
stats_change ==
    /\ pc = "source"
    /\ srcs.stats = "stats1"
    /\ srcs' = [srcs EXCEPT !.stats = "stats2"]
    /\ UNCHANGED <<idc, skipc, exp, wr, sctx>>
    /\ UNCHANGED <<inputs, persist, ctl, exv, trv, hist, runv, taskv, archv>>

NoSources == [obj |-> [i \in SourceIds |-> NoSource], stats |-> "stats1"]

(* -------------------------- skip_cached_source ------------------------ *)
\* at most this many entries are made in the archive cache
MaxEntries == 2

\* the arguments that entries are made with: those of Opts, and those that
\* skip_cached_source derives its key with
SkipKwargs == {<<"use_checksum", "True">>}
EntryOpts == Opts \cup {[args |-> <<>>, kw |-> SkipKwargs]}

\* skip_cached_source(source), lines 44-48 of cache.py: the key when the
\* archive cache has an entry under it, else None
skip_cached_source(uri, r, cache) ==
    LET key == cache_make_cache_key(uri, <<>>, SkipKwargs, r)
    IN  IF key # NoKey /\ HasEntry(cache, key) THEN key ELSE NoKey

NoSkipCall == [op |-> "none", uri |-> CHOOSE u \in Uris : TRUE, key |-> NoKey]

\* a result for the source at u, got with the arguments o, is stored in the
\* archive cache under the key that make_cache_key derives for it; the entry
\* holds what it was made for
cache_entry_made ==
    /\ pc = "skip"
    /\ Cardinality(acache) < MaxEntries
    /\ \E u \in Uris, o \in EntryOpts :
          LET key == cache_make_cache_key(u, o.args, o.kw, resource[u])
          IN  /\ key # NoKey
              /\ ~HasEntry(acache, key)
              /\ acache' = Put(acache, key, [uri |-> u, args |-> o.args, kw |-> o.kw])
    /\ UNCHANGED <<ck, resource, archive, acall, aprev, skipc>>
    /\ UNCHANGED <<idc, srcs, exp, wr, sctx>>
    /\ UNCHANGED <<inputs, persist, ctl, exv, trv, hist, runv, taskv>>

\* skip_cached_source(source) for the source at u
skip_cached_source_call ==
    /\ pc = "skip"
    /\ \E u \in Uris :
          skipc' = [op |-> "skip", uri |-> u,
                    key |-> skip_cached_source(u, resource[u], acache)]
    /\ UNCHANGED <<idc, srcs, exp, wr, sctx>>
    /\ UNCHANGED <<inputs, persist, ctl, exv, trv, hist, runv, taskv, archv>>

(* ------------------------- logic/export.py handle --------------------- *)
\* the entities a statement store may hold when export begins
StoredEntities == {Entity(s, 1, k) : s \in SourceNames, k \in 1..MaxFanout}

\* Collector(): nothing collected
NoneCollected == [e \in StoredEntities |-> 0]

\* exp: the configuration (ctx.lake, config.export.*), where the handler
\* is, what ctx.store.iterate has yet to give, how often the collector has
\* collected each entity, what was written to entities_uri, and whether
\* statistics were exported from the collector, applied to the dataset and
\* written
NoExport ==
    [at |-> "idle", lake |-> FALSE, entities_uri |-> FALSE, index_uri |-> FALSE,
     statistics_uri |-> FALSE, todo |-> {}, collected |-> NoneCollected,
     written |-> {}, computed |-> FALSE, applied |-> FALSE,
     index_written |-> FALSE, statistics_written |-> FALSE]

\* handle, lines 73-81: statistics exported from the collector, applied to
\* the dataset and written, then the dataset returned
ExportStats(e) ==
    IF e.index_uri \/ e.statistics_uri
    THEN [e EXCEPT !.at = "returned", !.computed = TRUE, !.applied = TRUE,
                   !.index_written = e.index_uri,
                   !.statistics_written = e.statistics_uri]
    ELSE [e EXCEPT !.at = "returned"]

\* a run's load stage has committed an entity to the statement store
\* before export begins
stored_before ==
    /\ pc = "exporting"
    /\ exp.at = "idle"
    /\ \E e \in StoredEntities \ store : store' = store \cup {e}
    /\ UNCHANGED <<idc, srcs, skipc, exp, wr, sctx>>
    /\ UNCHANGED <<inputs, tags, ctl, exv, trv, hist, runv, taskv, archv>>

\* handle, lines 57-66: the lake branch returns the dataset; otherwise a
\* collector, the store's iterator and the lazy iterator over both are made
export_handle ==
    /\ pc = "exporting"
    /\ exp.at = "idle"
    /\ \E lake \in BOOLEAN, entities_uri \in BOOLEAN, index_uri \in BOOLEAN,
          statistics_uri \in BOOLEAN :
          exp' = [NoExport EXCEPT
                    !.lake = lake, !.entities_uri = entities_uri,
                    !.index_uri = index_uri, !.statistics_uri = statistics_uri,
                    !.todo = store,
                    !.at = CASE lake -> "returned"
                             [] ~lake /\ (entities_uri \/ index_uri) -> "iterate"
                             [] OTHER -> "stats"]
    /\ UNCHANGED <<idc, srcs, skipc, wr, sctx>>
    /\ UNCHANGED <<inputs, persist, ctl, exv, trv, hist, runv, taskv, archv>>

\* lines 67-71 with get_iterator, lines 36-39: smart_write_proxies or the
\* list comprehension takes the next entity of the store, which the
\* collector collects on the way; or the store has no more; or the store or
\* the write raises
export_iterate ==
    /\ pc = "exporting"
    /\ exp.at = "iterate"
    /\ \/ \E e \in exp.todo :
             exp' = [exp EXCEPT !.todo = exp.todo \ {e},
                                !.collected[e] = exp.collected[e] + 1,
                                !.written = IF exp.entities_uri
                                            THEN exp.written \cup {e} ELSE exp.written]
       \/ /\ exp.todo = {}
          /\ exp' = [exp EXCEPT !.at = "stats"]
       \/ exp' = [exp EXCEPT !.at = "raised"]
    /\ UNCHANGED <<idc, srcs, skipc, wr, sctx>>
    /\ UNCHANGED <<inputs, persist, ctl, exv, trv, hist, runv, taskv, archv>>

\* lines 73-81
export_stats ==
    /\ pc = "exporting"
    /\ exp.at = "stats"
    /\ exp' = ExportStats(exp)
    /\ UNCHANGED <<idc, srcs, skipc, wr, sctx>>
    /\ UNCHANGED <<inputs, persist, ctl, exv, trv, hist, runv, taskv, archv>>

(* ------------------- archive_source, two at a time -------------------- *)
\* the content of a resource goes to the archive in this many writes
MaxChunks == 2

Procs == {1, 2}

\* fh.read() as the writes it makes: the pieces of the content, in order
Chunks(content) == [i \in 1..MaxChunks |-> <<content, i>>]

\* what a file holds where nothing was written
Hole == <<"hole", 0>>

\* a file opened for appending: what it holds stays, writes go to its end
FileOpen_Append(st, key) ==
    [archive |-> IF HasEntry(st, key) THEN st ELSE Put(st, key, <<>>),
     pos |-> IF HasEntry(st, key) THEN Len(EntryOf(st, key).bytes) + 1 ELSE 1]

\* archive.open(key, "wb"), line 85: the file under the key is created, or
\* cut to nothing; the writes of this handle begin at its start
FileOpen(st, key) == [archive |-> Put(st, key, <<>>), pos |-> 1]

\* one write of a handle at its position pos
FileWrite(st, key, pos, chunk) ==
    LET old == IF HasEntry(st, key) THEN EntryOf(st, key).bytes ELSE <<>>
        n == IF pos > Len(old) THEN pos ELSE Len(old)
    IN  Put(st, key, [i \in 1..n |-> IF i = pos THEN chunk
                                      ELSE IF i <= Len(old) THEN old[i] ELSE Hole])

\* wr[p]: where p is in archive_source; its key; the position of its handle
\* and the writes it has made; whether it cut the file under the other's
\* handle; what it returned
NoWriter == [at |-> "start", key |-> NoKey, pos |-> 0, n |-> 0, raced |-> FALSE,
             hit |-> FALSE, ret |-> NoKey]

\* the locator both processes archive
TheUri == CHOOSE u \in Uris : TRUE

WritersKept == UNCHANGED <<idc, srcs, skipc, exp, sctx>>

\* the decorator of line 59 looks the call up in the archive cache
w_lookup(p) ==
    /\ pc = "writers" /\ wr[p].at = "start"
    /\ LET k == archive_make_cache_key(TheUri, <<>>, {}, resource[TheUri])
       IN  IF k # NoKey /\ HasEntry(acache, k)
           THEN wr' = [wr EXCEPT ![p].at = "done", ![p].hit = TRUE,
                                 ![p].ret = EntryOf(acache, k).bytes]
           ELSE wr' = [wr EXCEPT ![p].at = "fetch"]
    /\ WritersKept
    /\ UNCHANGED <<inputs, persist, ctl, exv, trv, hist, runv, taskv, archv>>

\* lines 80-84: the resource is opened and the key gets its checksum
w_fetch(p) ==
    /\ pc = "writers" /\ wr[p].at = "fetch"
    /\ wr' = [wr EXCEPT ![p].at = "open",
                        ![p].key = Append(make_archive_key(TheUri),
                                          ContentChecksum(resource[TheUri].content))]
    /\ WritersKept
    /\ UNCHANGED <<inputs, persist, ctl, exv, trv, hist, runv, taskv, archv>>

\* line 85
w_open(p) ==
    /\ pc = "writers" /\ wr[p].at = "open"
    /\ archive' = FileOpen(archive, wr[p].key).archive
    /\ wr' = [wr EXCEPT ![p].at = "write",
                        ![p].pos = FileOpen(archive, wr[p].key).pos,
                        ![p].raced = \E q \in Procs \ {p} :
                                        wr[q].at = "write" /\ wr[q].pos > 1]
    /\ WritersKept
    /\ UNCHANGED <<ck, resource, acache, acall, aprev>>
    /\ UNCHANGED <<inputs, persist, ctl, exv, trv, hist, runv, taskv>>

\* line 86: the next write of out.write(fh.read()), or the handle is closed
w_write(p) ==
    /\ pc = "writers" /\ wr[p].at = "write"
    /\ LET chunks == Chunks(resource[TheUri].content)
       IN  IF wr[p].n < Len(chunks)
           THEN /\ archive' = FileWrite(archive, wr[p].key, wr[p].pos,
                                        chunks[wr[p].n + 1])
                /\ wr' = [wr EXCEPT ![p].pos = wr[p].pos + 1, ![p].n = wr[p].n + 1]
           ELSE /\ wr' = [wr EXCEPT ![p].at = "return"]
                /\ UNCHANGED archive
    /\ WritersKept
    /\ UNCHANGED <<ck, resource, acache, acall, aprev>>
    /\ UNCHANGED <<inputs, persist, ctl, exv, trv, hist, runv, taskv>>

\* line 91, and the decorator stores what is returned
w_return(p) ==
    /\ pc = "writers" /\ wr[p].at = "return"
    /\ wr' = [wr EXCEPT ![p].at = "done", ![p].ret = wr[p].key]
    /\ LET k == archive_make_cache_key(TheUri, <<>>, {}, resource[TheUri])
       IN  acache' = IF k # NoKey THEN Put(acache, k, wr[p].key) ELSE acache
    /\ WritersKept
    /\ UNCHANGED <<ck, resource, archive, acall, aprev>>
    /\ UNCHANGED <<inputs, persist, ctl, exv, trv, hist, runv, taskv>>

(* -------------------------- get_source_context ------------------------ *)
\* the names of the sources of config.extract.sources, in order
ConfigSources == UNION {[1..m -> {"a", "b"}] : m \in 0..2}
\* the source names asked for
AskedNames == {"a", "b", "c"}
\* the uri argument
AskedUris == {None, "", "http://host/a.csv"}

\* get_source_context(config_uri, source_name, uri), lines 422-430: the
\* name of the source of the context returned, or the error raised
get_source_context(sources, source_name, uri) ==
    IF \E i \in 1..Len(sources) : sources[i] = source_name
    THEN [raised |-> "none",
          source |-> sources[CHOOSE i \in 1..Len(sources) :
                                /\ sources[i] = source_name
                                /\ \A j \in 1..(i - 1) : sources[j] # source_name]]
    ELSE IF Len(sources) = 1
    THEN [raised |-> "none", source |-> sources[1]]
    ELSE IF Truthy(uri)
    THEN [raised |-> "none",
          source |-> Source({<<"name", source_name>>, <<"uri", uri>>}).name]
    ELSE [raised |-> "ValueError", source |-> None]

NoContextCall ==
    [called |-> FALSE, sources |-> <<>>, name |-> "a", uri |-> None,
     raised |-> "none", source |-> None]

\* get_source_context(config_uri, source_name, uri), as transform_record
\* calls it with the "__source__" of a record and no uri
get_source_context_call ==
    /\ pc = "context"
    /\ ~sctx.called
    /\ LET got == get_source_context(sctx.sources, sctx.name, sctx.uri)
       IN  sctx' = [sctx EXCEPT !.called = TRUE, !.raised = got.raised,
                                !.source = got.source]
    /\ UNCHANGED <<idc, srcs, skipc, exp, wr>>
    /\ UNCHANGED <<inputs, persist, ctl, exv, trv, hist, runv, taskv, archv>>

(* --------------------- cli: extract, then transform ------------------- *)
\* the records one source gives extract_all: all of them, or those up to the
\* limit of lines 106-108
RecordsOf(s, lim) ==
    [n \in 1..(IF lim # NoLimit /\ lim < nrec[s] THEN lim ELSE nrec[s]) |->
        [src |-> s, rec |-> n]]

RECURSIVE ExtractAllFrom(_, _)
ExtractAllFrom(i, lim) ==
    IF i > Len(AllSources) THEN <<>>
    ELSE RecordsOf(AllSources[i], lim) \o ExtractAllFrom(i + 1, lim)

\* DatasetContext.extract_all(limit), lines 105-109: the records of the
\* sources one source after the other, each with its "__source__"
extract_all(lim) == ExtractAllFrom(1, lim)

\* cli_transform, line 84: enumerate(smart_stream_data(...)) counts the
\* records of the stream from 0
CliIndex(pos) == pos - 1

\* cli_extract, lines 62-64: ctx.extract_all() is written out; not
\* incremental, every source is extracted to its end and tagged if it has a
\* key
cli_extract ==
    /\ pc = "cli_extract"
    /\ pc' = "cli_transform"
    /\ tags' = tags \cup {ExtractTagKey(s) : s \in {t \in SourceNames : ExtractTagKey(t) # NoKey}}
    /\ invoked' = SourceNames
    /\ exhausted' = SourceNames
    /\ puts' = {s \in SourceNames : ExtractTagKey(s) # NoKey}
    /\ UNCHANGED <<inputs, store, run, incremental, cur, bulk, exv, trv,
                   hadTag, handed, loadRet, exportCalls, store0, prevRun,
                   runv, taskv, archv, auxv>>

\* cli_transform, lines 83-89: the next record of the stream goes to
\* transform_record with its number in the stream; transform_record, lines
\* 36-37, gets the context for the record's "__source__" and hands on what
\* the transform handler yields
cli_transform ==
    /\ pc = "cli_transform"
    /\ trIx < Len(extract_all(NoLimit))
    /\ LET record == extract_all(NoLimit)[trIx + 1]
           sc == get_source_context(StaticSources, record.src, None)
       IN  /\ trIx' = trIx + 1
           /\ calls' = Append(calls, [src |-> record.src, rec |-> record.rec,
                                      ix |-> CliIndex(trIx + 1), ctx |-> sc.source])
           /\ IF sc.raised = "none"
              THEN /\ handed' = handed \o [k \in 1..fanout[record.src] |->
                                              Entity(record.src, record.rec, k)]
                   /\ UNCHANGED <<pc, error>>
              ELSE /\ pc' = "raised"
                   /\ error' = "transform"
                   /\ UNCHANGED handed
    /\ UNCHANGED <<inputs, persist, run, incremental, cur, bulk, exv, trActive,
                   trCount, hadTag, invoked, exhausted, puts, loadRet,
                   exportCalls, store0, prevRun, tags0, loadIx, loadValue,
                   taskv, archv, auxv>>

\* none of the helpers of this part is called; but is the one a
\* specification is about
AuxIdleBut(but) ==
    /\ but # "idc" => idc = NoIdCall
    /\ but # "srcs" => srcs = NoSources
    /\ but # "skipc" => skipc = NoSkipCall
    /\ but # "exp" => exp = NoExport
    /\ but # "wr" => wr = [p \in Procs |-> NoWriter]
    /\ but # "sctx" => sctx = NoContextCall

AuxIdle == AuxIdleBut("none")

\* no calls of make_cache_key, archive_source or open
ArchiveIdle ==
    /\ ck = NoProbe
    /\ resource = [u \in Uris |-> CHOOSE r \in ArchiveResources : r.content = "c1" /\ r.signal = "e1"]
    /\ archive = {} /\ acache = {}
    /\ acall = NoArchiveCall /\ aprev = NoArchiveCall

\* the dataset's configuration and sources; nothing has run, the tag store
\* and the statement store are empty
InitCommon ==
    /\ nrec \in [SourceNames -> 0..MaxRecs]
    /\ \E keyed \in SUBSET SourceNames :
          ckey = [s \in SourceNames |-> IF s \in keyed THEN CacheKeyOf(s) ELSE NoKey]
    /\ \E n \in 0..MaxFanout : fanout = [s \in SourceNames |-> n]
    /\ loader \in {"default", "first"}
    /\ limit = NoLimit
    /\ dataset = DatasetName
    /\ tags = {} /\ store = {}
    /\ run = 0 /\ incremental = FALSE
    /\ cur = 0 /\ bulk = {}
    /\ exState = "none" /\ exPulled = 0 /\ exYielded = 0 /\ exTags0 = {}
    /\ trIx = 0 /\ trActive = FALSE /\ trCount = 0 /\ calls = <<>>
    /\ hadTag = {} /\ invoked = {} /\ exhausted = {} /\ puts = {}
    /\ handed = <<>>
    /\ loadRet = [s \in SourceNames |-> "none"]
    /\ exportCalls = 0
    /\ store0 = {}
    /\ prevRun = [pc |-> "idle", incremental |-> FALSE, dataset |-> DatasetName,
                 exhausted |-> {}]
    /\ error = "none" /\ tags0 = {} /\ loadIx = 0
    /\ loadValue = [s \in SourceNames |-> NoValue]
    /\ tasks = [t \in TaskIds |-> NoTask]
    /\ last = NoCall

Init == InitCommon /\ ArchiveIdle /\ AuxIdle /\ pc = "idle"

Next ==
    \/ run_start
    \/ get_sources
    \/ transform
    \/ transform_handle
    \/ load_commit
    \/ export

Spec == Init /\ [][Next]_vars

(* ------------- SourceContext.extract(limit), called directly ----------- *)
\* a caller takes ctx.extract(limit) of some source: a new generator
extract_call ==
    /\ pc = "consumer"
    /\ exState \in {"none", "done", "raised", "closed"}
    /\ run + 1 \in Runs
    /\ run' = run + 1
    /\ incremental' \in BOOLEAN
    /\ limit' \in {NoLimit} \cup 0..MaxRecs
    /\ dataset' \in Datasets
    /\ prevRun' = [pc |-> pc, incremental |-> incremental, dataset |-> dataset,
                   exhausted |-> exhausted]
    /\ cur' \in 1..Len(AllSources)
    /\ exState' = "new" /\ exPulled' = 0 /\ exYielded' = 0 /\ exTags0' = tags
    /\ hadTag' = {} /\ invoked' = {} /\ exhausted' = {} /\ puts' = {}
    /\ UNCHANGED <<nrec, ckey, fanout, loader, persist, pc, bulk, trv, handed,
                   loadRet, exportCalls, store0, runv, taskv, archv, auxv>>

\* the caller's next() on the generator
extract_next ==
    /\ pc = "consumer"
    /\ \E res \in {"record", "stop", "raise"} : extract(Src, res)
    /\ UNCHANGED <<inputs, store, pc, run, incremental, cur, bulk, trv, handed,
                   loadRet, exportCalls, store0, prevRun, runv, taskv, archv, auxv>>

\* the caller stops iterating and drops the generator (a load handler that
\* returns, the break of extract_all at line 108): GeneratorExit is thrown
\* in at the yield of line 288 and leaves extract through lines 289-298
extract_close ==
    /\ pc = "consumer"
    /\ exState \in {"new", "running"}
    /\ exState' = "closed"
    /\ tags' = TagsAfter(Src, "close")
    /\ UNCHANGED <<inputs, store, ctl, exPulled, exYielded, exTags0, trv, hist,
                   runv, taskv, archv, auxv>>

\* the transform and load stages take no part: one loader, no entities
InitExtract ==
    /\ InitCommon
    /\ ArchiveIdle
    /\ AuxIdle
    /\ pc = "consumer"
    /\ loader = "default"
    /\ fanout = [s \in SourceNames |-> 0]

NextExtract ==
    \/ extract_call
    \/ extract_next
    \/ extract_close

SpecExtract == InitExtract /\ [][NextExtract]_vars

(* ------------------------ task contexts alone ------------------------- *)
InitTask ==
    /\ InitCommon
    /\ ArchiveIdle
    /\ AuxIdle
    /\ pc = "tasks"
    /\ nrec = [s \in SourceNames |-> 0]
    /\ ckey = [s \in SourceNames |-> NoKey]
    /\ loader = "default"
    /\ fanout = [s \in SourceNames |-> 0]

NextTask ==
    \/ \E t \in TaskIds : task_call(t)
    \/ \E t \in TaskIds : emit_call(t)
    \/ \E t \in TaskIds : task_iter(t)

SpecTask == InitTask /\ [][NextTask]_vars

(* ------------------------- make_cache_key alone ----------------------- *)
\* the pipeline takes no part: no records, no keys, one loader
NoPipeline ==
    /\ nrec = [s \in SourceNames |-> 0]
    /\ ckey = [s \in SourceNames |-> NoKey]
    /\ fanout = [s \in SourceNames |-> 0]
    /\ loader = "default"

\* a function, a locator, arguments and what is at the locator
InitCacheKey ==
    /\ InitCommon
    /\ NoPipeline
    /\ AuxIdle
    /\ pc = "keys"
    /\ \E f \in KeyFuncs, u \in Uris, o \in Opts, r \in Resources :
          ck = [NoProbe EXCEPT !.module = f, !.url = u, !.opt = o, !.r1 = r, !.r2 = r]
    /\ resource = [u \in Uris |-> CHOOSE r \in ArchiveResources : r.content = "c1" /\ r.signal = "e1"]
    /\ archive = {} /\ acache = {}
    /\ acall = NoArchiveCall /\ aprev = NoArchiveCall

NextCacheKey ==
    \/ call_make_cache_key
    \/ resource_changes

SpecCacheKey == InitCacheKey /\ [][NextCacheKey]_vars

(* ------------------------ archive_source and open --------------------- *)
InitArchive ==
    /\ InitCommon
    /\ NoPipeline
    /\ ArchiveIdle
    /\ AuxIdle
    /\ pc = "archive"

NextArchive ==
    \/ archive_source_call
    \/ open_call
    \/ archive_resource_changes

SpecArchive == InitArchive /\ [][NextArchive]_vars

(* ------------------------- identifier helpers alone ------------------- *)
\* a helper, its parts, a dataset prefix and keyword arguments
InitIds ==
    /\ InitCommon
    /\ NoPipeline
    /\ ArchiveIdle
    /\ AuxIdleBut("idc")
    /\ pc = "ids"
    /\ \E fn \in IdHelpers, args \in PartTuples, dprefix \in DatasetPrefixes,
          kw \in IdKwargs :
          idc = [NoIdCall EXCEPT !.fn = fn, !.args = args, !.dprefix1 = dprefix,
                                 !.kw1 = kw]

NextIds == id_helper_call

SpecIds == InitIds /\ [][NextIds]_vars

(* ----------------------------- Sources alone -------------------------- *)
InitSource ==
    /\ InitCommon
    /\ NoPipeline
    /\ ArchiveIdle
    /\ AuxIdleBut("srcs")
    /\ pc = "source"
    /\ srcs = NoSources

NextSource ==
    \/ \E i \in SourceIds : source_init(i)
    \/ \E i \in SourceIds : source_info(i)
    \/ \E i \in SourceIds : source_mimetype(i)
    \/ stats_change

SpecSource == InitSource /\ [][NextSource]_vars

(* ------------------------ skip_cached_source alone -------------------- *)
\* something is at each locator; the archive cache is empty
InitSkip ==
    /\ InitCommon
    /\ NoPipeline
    /\ AuxIdle
    /\ pc = "skip"
    /\ ck = NoProbe
    /\ resource \in [Uris -> ArchiveResources]
    /\ archive = {} /\ acache = {}
    /\ acall = NoArchiveCall /\ aprev = NoArchiveCall

NextSkip ==
    \/ cache_entry_made
    \/ skip_cached_source_call

SpecSkip == InitSkip /\ [][NextSkip]_vars

(* ---------------------- the export handler alone ---------------------- *)
InitExport ==
    /\ InitCommon
    /\ NoPipeline
    /\ ArchiveIdle
    /\ AuxIdleBut("exp")
    /\ pc = "exporting"
    /\ exp = NoExport

NextExport ==
    \/ stored_before
    \/ export_handle
    \/ export_iterate
    \/ export_stats

SpecExport == InitExport /\ [][NextExport]_vars

(* ------------------- two processes in archive_source ------------------ *)
\* something is at the locator; the archive and its cache are empty
InitWriters ==
    /\ InitCommon
    /\ NoPipeline
    /\ AuxIdle
    /\ pc = "writers"
    /\ ck = NoProbe
    /\ \E r \in Resources : resource = [u \in Uris |-> r]
    /\ archive = {} /\ acache = {}
    /\ acall = NoArchiveCall /\ aprev = NoArchiveCall

NextWriters ==
    \/ \E p \in Procs : w_lookup(p)
    \/ \E p \in Procs : w_fetch(p)
    \/ \E p \in Procs : w_open(p)
    \/ \E p \in Procs : w_write(p)
    \/ \E p \in Procs : w_return(p)

SpecWriters == InitWriters /\ [][NextWriters]_vars

(* ---------------------- get_source_context alone ----------------------- *)
\* a configuration with its sources, a source name and a uri or none
InitContext ==
    /\ InitCommon
    /\ NoPipeline
    /\ ArchiveIdle
    /\ AuxIdleBut("sctx")
    /\ pc = "context"
    /\ \E sources \in ConfigSources, name \in AskedNames, uri \in AskedUris :
          sctx = [NoContextCall EXCEPT !.sources = sources, !.name = name,
                                       !.uri = uri]

NextContext == get_source_context_call

SpecContext == InitContext /\ [][NextContext]_vars

(* ------------------- the standalone extract and transform ------------- *)
InitCli ==
    /\ InitCommon
    /\ ArchiveIdle
    /\ AuxIdle
    /\ loader = "default"
    /\ pc = "cli_extract"

NextCli ==
    \/ cli_extract
    \/ cli_transform

SpecCli == InitCli /\ [][NextCli]_vars

(* ------------------------------- claims -------------------------------- *)
Range(seq) == {seq[i] : i \in 1..Len(seq)}

\* the extract generator of the current source has been entered
Entered == exState \in {"running", "done", "raised", "closed"}

\* C1: with incremental mode on and a tag already under the source's
\* extraction tag key, extract yields no record, never invokes the extract
\* handler and leaves the tag store as it was.
C1_SkipsTaggedSource ==
    (Entered /\ incremental /\ Src \in hadTag)
        => /\ exState = "done"
           /\ exYielded = 0
           /\ exPulled = 0
           /\ Src \notin invoked
           /\ tags = exTags0

C1_Witness ==
    /\ exState = "done" /\ incremental /\ Src \in hadTag
    /\ nrec[Src] > 0

\* C2: when the extract handler raises, after any number of records, no
\* completion tag is written: the tag store is what it was when extract was
\* called, and a source that had no tag has none now.
C2_NoTagWhenHandlerRaises ==
    exState = "raised"
        => /\ tags = exTags0
           /\ (Src \notin hadTag => ExtractTagKey(Src) \notin tags)

C2_Witness ==
    /\ exState = "raised" /\ exYielded > 0
    /\ ExtractTagKey(Src) # NoKey /\ Src \notin hadTag

\* C3: extract writes a completion tag only after the handler's record
\* sequence is exhausted, for every limit: a tag written by extract implies
\* that every record of the handler was yielded to the consumer.
C3_TagImpliesEveryRecordYielded ==
    (exState = "done" /\ Src \in puts)
        => (Src \in exhausted /\ exYielded = nrec[Src])

AllEntities ==
    {Entity(s, n, k) : s \in SourceNames, n \in 1..MaxRecs, k \in 1..MaxFanout}

\* the entities the pipeline makes of source s
EntitiesOf(s) ==
    {e \in AllEntities : e.src = s /\ e.rec <= nrec[s] /\ e.k <= fanout[s]}

DatasetEntities == UNION {EntitiesOf(s) : s \in SourceNames}

Keyed(s) == ExtractTagKey(s) # NoKey

\* a run with the default load handler came to its end
RunDone == pc = "done" /\ loader = "default"

\* the second of two incremental runs, the first of which came to its end
SecondRun ==
    /\ run = 2 /\ incremental /\ loader = "default"
    /\ prevRun.pc = "done" /\ prevRun.incremental

FirstRunLoadsAll ==
    (run = 1 /\ incremental /\ RunDone)
        => /\ invoked = SourceNames
           /\ exhausted = SourceNames
           /\ {<<c.src, c.rec>> : c \in Range(calls)}
                = {<<s, n>> \in SourceNames \X (1..MaxRecs) : n <= nrec[s]}
           /\ Range(handed) = DatasetEntities
           /\ store = DatasetEntities

\* C4 as stated: of two incremental runs of one dataset the first extracts,
\* transforms and loads every record, the second invokes no extract handler
\* for any source, hands no entity to load and leaves the store's entities
\* unchanged.
C4_SecondRunDoesNothing ==
    /\ FirstRunLoadsAll
    /\ SecondRun => (invoked = {} /\ handed = <<>> /\ store = store0)

\* C4 amended: the second run invokes no extract handler for any source
\* whose extraction tag key can be derived and hands no entity of such a
\* source to load; the store's entities are unchanged.
C4_SecondRunSkipsKeyedSources ==
    /\ FirstRunLoadsAll
    /\ SecondRun
        => /\ \A s \in SourceNames : Keyed(s) => s \notin invoked
           /\ \A e \in Range(handed) : ~Keyed(e.src)
           /\ store = store0

C4_Witness ==
    /\ SecondRun /\ pc = "done"
    /\ \E s \in SourceNames : Keyed(s) /\ EntitiesOf(s) # {}
    /\ \E s \in SourceNames : ~Keyed(s) /\ EntitiesOf(s) # {}

\* C5: after a run a completion tag written by it exists for a source only
\* if the load stage of that source returned normally; no tag exists for a
\* source whose load handler (its writer's commit included) raised.
C5_TagOnlyIfLoadReturned ==
    pc \in {"done", "raised"}
        => \A s \in puts : loadRet[s] = "returned"

\* the calls of the transform handler for source s, in order
CallsOf(s) == SelectSeq(calls, LAMBDA c : c.src = s)

\* C10: transform calls the handler once per record, in input order, with
\* the 1-based position of the record as index, and every entity of record
\* n is yielded downstream before record n+1 is pulled.
C10_TransformInOrder ==
    /\ \A s \in SourceNames : \A i \in 1..Len(CallsOf(s)) :
          /\ CallsOf(s)[i].rec = i
          /\ CallsOf(s)[i].ix = i
    /\ \A i \in 1..Len(calls) : \A j \in 1..Len(calls) :
          (i < j /\ calls[i].src = calls[j].src /\ loader = "default")
              => \A k \in 1..fanout[calls[i].src] :
                    Entity(calls[i].src, calls[i].rec, k) \in Range(handed)
    /\ \A i \in 1..Len(handed) : \A j \in 1..Len(handed) :
          (i < j /\ handed[i].src = handed[j].src)
              => \/ handed[i].rec < handed[j].rec
                 \/ handed[i].rec = handed[j].rec /\ handed[i].k < handed[j].k
    /\ pc = "load" => Len(CallsOf(Src)) = exYielded

C10_Witness ==
    /\ pc = "load" /\ fanout[Src] = 2
    /\ Len(CallsOf(Src)) = 2 /\ Len(handed) >= 3

Made == {t \in TaskIds : tasks[t].made}

ProxiesOf(t) == tasks[t].ctx.proxies

\* the entities with identifier id that emit went through on task t
LogOf(t, id) == SelectSeq(tasks[t].log, LAMBDA e : e.id = id)

Reverse(seq) == [i \in 1..Len(seq) |-> seq[Len(seq) + 1 - i]]

RECURSIVE MergeAll(_)
MergeAll(es) ==
    IF Len(es) = 1 THEN es[1]
    ELSE merge(MergeAll(SubSeq(es, 1, Len(es) - 1)), es[Len(es)])

EntriesUnder(proxies, id) == {i \in 1..Len(proxies) : proxies[i].key = id}

\* C6: entities with one identifier emitted into a task that held none under
\* it leave exactly one entry under it, the merge of them with the union of
\* their properties, the same in either order; iterating the task yields
\* exactly one entity with that identifier.
C6_SameIdMergedOnce ==
    /\ \A t \in Made : \A id \in Ids :
          (LogOf(t, id) # <<>> /\ ~HasKey(tasks[t].base, id))
              => /\ Cardinality(EntriesUnder(ProxiesOf(t), id)) = 1
                 /\ LET val == ProxiesOf(t)[KeyIndex(ProxiesOf(t), id)].val IN
                    /\ val = MergeAll(LogOf(t, id))
                    /\ val = MergeAll(Reverse(LogOf(t, id)))
                    /\ val.props = UNION {e.props : e \in Range(LogOf(t, id))}
    /\ last.op = "iter"
          => \A id \in Ids :
                (LogOf(last.task, id) # <<>> /\ ~HasKey(tasks[last.task].base, id))
                    => \E i \in 1..Len(last.out) :
                          /\ last.out[i] = MergeAll(LogOf(last.task, id))
                          /\ \A j \in 1..Len(last.out) :
                                last.out[j].id = id => j = i

C6_Witness ==
    /\ last.op = "iter"
    /\ tasks[last.task].base = <<>>
    /\ Len(LogOf(last.task, "x")) = 2
    /\ LogOf(last.task, "x")[1] # LogOf(last.task, "x")[2]
    /\ Len(last.out) = 1
    /\ last.out[1].props = {"a", "b"}

\* C7 as stated: emit raises DataError for an entity without identifier, and
\* every entry the accumulator held before the call is still there, unchanged.
C7_FailedEmitChangesNothing ==
    (last.op = "emit" /\ last.noid)
        => /\ last.err = "DataError"
           /\ \A i \in 1..Len(last.before) :
                 /\ i <= Len(ProxiesOf(last.task))
                 /\ ProxiesOf(last.task)[i] = last.before[i]

\* the entities the last emit call went through before it ended
LastEmitted ==
    SubSeq(tasks[last.task].log,
           Len(tasks[last.task].log) - last.n + 1, Len(tasks[last.task].log))

\* C7 amended: emit raises DataError for an entity without identifier; every
\* entry the accumulator held before the call is still there under its key,
\* with its identifier and all its property values, changed by nothing but
\* the merge of the identified entities that precede the one without
\* identifier in that call.
C7_FailedEmitKeepsEntries ==
    (last.op = "emit" /\ last.noid)
        => /\ last.err = "DataError"
           /\ \A i \in 1..Len(last.before) :
                 /\ i <= Len(ProxiesOf(last.task))
                 /\ ProxiesOf(last.task)[i].key = last.before[i].key
                 /\ ProxiesOf(last.task)[i].val.id = last.before[i].val.id
                 /\ last.before[i].val.props \subseteq ProxiesOf(last.task)[i].val.props
                 /\ ProxiesOf(last.task)[i].val.props \ last.before[i].val.props
                       \subseteq UNION {e.props : e \in
                             {f \in Range(LastEmitted) : f.id = last.before[i].key}}
           /\ last.n = 0 => ProxiesOf(last.task) = last.before

C7_Witness ==
    /\ last.op = "emit" /\ last.noid /\ last.err = "DataError"
    /\ last.before # <<>>
    /\ last.n > 0
    /\ ProxiesOf(last.task) # last.before

\* C8: a task context made by task() has an empty accumulator of its own,
\* whatever context it is made from: it holds, and yields, only what was
\* emitted into it.
C8_TaskStartsEmpty ==
    /\ \A t \in Made :
          /\ tasks[t].base = <<>>
          /\ \A i \in 1..Len(ProxiesOf(t)) :
                \E e \in Range(tasks[t].log) : e.id = ProxiesOf(t)[i].key
    /\ last.op = "iter"
          => \A i \in 1..Len(last.out) :
                \E e \in Range(tasks[last.task].log) : e.id = last.out[i].id

\* C9: every key of an accumulator is a non-empty identifier, and the entity
\* under it has that identifier, also after merges.
C9_KeysAreIdentifiers ==
    \A t \in Made : \A i \in 1..Len(ProxiesOf(t)) :
        /\ ProxiesOf(t)[i].key # NoId
        /\ ProxiesOf(t)[i].key \in Ids
        /\ ProxiesOf(t)[i].val.id = ProxiesOf(t)[i].key
        /\ ~ProxiesOf(t)[i].val.none
        /\ \A j \in 1..Len(ProxiesOf(t)) :
              ProxiesOf(t)[j].key = ProxiesOf(t)[i].key => j = i

C9_Witness ==
    \E t \in Made :
        /\ Len(ProxiesOf(t)) = 2
        /\ Len(tasks[t].log) = 3
        /\ last.op = "emit" /\ last.err = "DataError"

\* source a comes before source b in get_sources
Earlier(a, b) ==
    \/ a \in Range(SeedSources) /\ b \in Range(StaticSources)
    \/ \E i, j \in 1..Len(SeedSources) :
          i < j /\ SeedSources[i] = a /\ SeedSources[j] = b
    \/ \E i, j \in 1..Len(StaticSources) :
          i < j /\ StaticSources[i] = a /\ StaticSources[j] = b

\* run has got the context of source s from get_sources
Started(s) == \E i \in 1..cur : AllSources[i] = s

\* nothing of source s has been extracted, transformed or handed to load
Untouched(s) ==
    /\ s \notin invoked
    /\ loadRet[s] = "none"
    /\ CallsOf(s) = <<>>
    /\ \A e \in Range(handed) : e.src # s

C12_ExportOnce ==
    /\ exportCalls > 0 => \A s \in SourceNames : loadRet[s] = "returned"
    /\ pc = "done" => exportCalls = 1

\* the stages that work on one source
SourceStages == {"extract", "transform", "load"}

\* C13 as stated: an exception of a stage handler ends the run: no later
\* source is processed, export is not invoked, and a completion tag exists
\* for a source exactly if its extraction had been exhausted before.
C13_TagsExactlyForExhausted ==
    error \in SourceStages
        => /\ pc = "raised"
           /\ \A s \in SourceNames : Earlier(Src, s) => Untouched(s)
           /\ exportCalls = 0
           /\ \A s \in SourceNames :
                 (ExtractTagKey(s) \in tags)
                     <=> (s \in exhausted \/ ExtractTagKey(s) \in tags0)

\* C13 amended: an exception of the extract, transform or load handler of a
\* source ends the run: no later source is processed, export is not invoked,
\* and the tags the run has written are exactly those of the sources with an
\* extraction tag key whose extraction had been exhausted before; the tags
\* of earlier runs remain.
C13_ErrorEndsRun ==
    error \in SourceStages
        => /\ pc = "raised"
           /\ \A s \in SourceNames : Earlier(Src, s) => Untouched(s)
           /\ exportCalls = 0
           /\ puts = {s \in exhausted : Keyed(s)}
           /\ tags = tags0 \cup {ExtractTagKey(s) : s \in puts}

C13_Witness ==
    /\ pc = "raised" /\ error = "load"
    /\ Src \in puts
    /\ \E s \in exhausted : ~Keyed(s) /\ loadRet[s] = "returned"
    /\ tags0 = {}

\* C14: an emission error raised in the transform handler for one record
\* aborts only that record: when the run has ended, every record of the
\* source has still been given to the transform handler.
C14_EmissionErrorSkipsRecord ==
    (error = "transform" /\ pc = "raised")
        => /\ Len(CallsOf(Src)) = nrec[Src]
           /\ exPulled = nrec[Src]

\* the freshness fingerprint of what is at a locator: the etag/mtime signal,
\* else the content checksum where the function takes it, else the metadata
Fingerprint(module, kwargs, r) ==
    IF Truthy(r.signal) THEN <<"signal", r.signal>>
    ELSE IF module = "cache" /\ Truthy(Get(kwargs, "use_checksum", "True"))
         THEN <<"content", r.content>>
         ELSE <<"meta", r.meta>>

SameFingerprint ==
    Fingerprint(ck.module, ck.opt.kw, ck.r1) = Fingerprint(ck.module, ck.opt.kw, ck.r2)

\* C15 as stated: for every locator and arguments, two calls of
\* make_cache_key return the same key when the fingerprint is unchanged and
\* different keys when it has changed.
C15_KeyFollowsFingerprint ==
    ck.calls = 2
        => /\ SameFingerprint => ck.k1 = ck.k2
           /\ ~SameFingerprint => ck.k1 # ck.k2

\* the key is to be derived from the freshness: caching is not disabled for
\* the call and url_key_only is not set
KeyedByFreshness(kwargs) ==
    /\ Get(kwargs, "cache", "None") # "False"
    /\ ~Truthy(Get(kwargs, "url_key_only", "False"))

\* C15 amended: two calls return the same result when the fingerprint is
\* unchanged; when it has changed they return different keys, unless caching
\* is disabled for the call (no key) or url_key_only is set (the key is made
\* of the locator and the arguments alone).
C15_KeyStableAndFresh ==
    ck.calls = 2
        => /\ SameFingerprint => ck.k1 = ck.k2
           /\ (~SameFingerprint /\ KeyedByFreshness(ck.opt.kw))
                 => (ck.k1 # ck.k2 /\ ck.k1 # NoKey /\ ck.k2 # NoKey)
           /\ ~KeyedByFreshness(ck.opt.kw) => ck.k1 = ck.k2

C15_Witness ==
    /\ ck.calls = 2
    /\ ~SameFingerprint /\ KeyedByFreshness(ck.opt.kw)
    /\ ck.module = "archive" /\ ck.opt.args # <<>>
    /\ ck.r1.signal = NoSignal /\ ck.r2.signal # NoSignal

\* archive_source was called twice with one locator and arguments, what is
\* at the locator was the same both times, and the first call returned
CalledTwice ==
    /\ aprev.op = "archive_source" /\ acall.op = "archive_source"
    /\ aprev.uri = acall.uri /\ aprev.kw = acall.kw
    /\ aprev.r = acall.r
    /\ ~aprev.raised

\* the second call returned the key of the first from the archive cache: it
\* did not open the resource and did not write to the archive store
AnsweredFromCache ==
    /\ ~acall.raised
    /\ acall.key = aprev.key
    /\ acall.hit
    /\ ~acall.fetched /\ ~acall.wrote

\* C16 as stated: the second of two calls of archive_source with the same
\* locator and arguments and an unchanged resource returns the same key and
\* is answered from the archive cache, whatever the arguments.
C16_SecondCallFromCache == CalledTwice => AnsweredFromCache

\* C16 amended: so it is unless caching is disabled for the calls
\* (cache=False); then the second call fetches and writes again.
C16_SecondCallFromCacheUnlessDisabled ==
    /\ (CalledTwice /\ Get(acall.kw, "cache", "None") # "False") => AnsweredFromCache
    /\ (CalledTwice /\ Get(acall.kw, "cache", "None") = "False")
          => (~acall.hit /\ acall.fetched)

C16_Witness ==
    /\ CalledTwice /\ AnsweredFromCache
    /\ aprev.failed = "none" /\ aprev.fetched /\ aprev.wrote
    /\ Len(acall.key) = Len(make_archive_key(acall.uri)) + 1
    /\ HasEntry(archive, acall.key)

\* C17: after a call of archive_source that returned without an error the
\* returned key is the path key of the locator joined with the checksum of a
\* content, and the archive store holds an entry under that key with that
\* content as its bytes; when the call fetched, it is the content fetched.
C17_KeyIsPathAndChecksum ==
    (acall.op = "archive_source" /\ ~acall.raised /\ acall.failed = "none")
        => \E c \in Contents :
              /\ acall.key = Append(make_archive_key(acall.uri), ContentChecksum(c))
              /\ [key |-> acall.key, bytes |-> c] \in archive
              /\ acall.fetched => c = acall.r.content

\* C18: when the fetch or the archive write fails, the error propagates with
\* raise_on_error true; with raise_on_error false the call returns the path
\* key without checksum, the archive store has no entry under the returned
\* key, and open fails on it.
C18_FailureLeavesNoEntry ==
    acall.failed # "none"
        => IF Truthy(Get(acall.kw, "raise_on_error", "True"))
           THEN acall.raised
           ELSE /\ ~acall.raised
                /\ acall.key = make_archive_key(acall.uri)
                /\ ~HasEntry(archive, acall.key)
                /\ acall.op = "open" => acall.opened = "raise"

\* what load was handed of source s, in order
HandedOf(s) == SelectSeq(handed, LAMBDA e : e.src = s)

\* the entities transform produces of source s, in order
Produced(s) ==
    [i \in 1..(nrec[s] * fanout[s]) |->
        Entity(s, ((i - 1) \div fanout[s]) + 1, ((i - 1) % fanout[s]) + 1)]

IsPrefix(a, b) == Len(a) <= Len(b) /\ a = SubSeq(b, 1, Len(a))

RECURSIVE Separately(_, _)
Separately(proxies, es) ==
    IF es = <<>> THEN proxies
    ELSE Separately(emit(proxies, <<Head(es)>>).proxies, Tail(es))

\* C20: emission is idempotent and does not depend on how the calls are
\* grouped: the accumulator of a task is what one emit call with all the
\* entities that went into it gives, and what one call per entity gives;
\* emitting an identified entity a second time changes nothing, and a call
\* with two entities gives what two calls give.
C20_EmitGrouping ==
    \A t \in Made :
        /\ ProxiesOf(t) = emit(tasks[t].base, tasks[t].log).proxies
        /\ ProxiesOf(t) = Separately(tasks[t].base, tasks[t].log)
        /\ \A e \in Identified :
              LET once == emit(ProxiesOf(t), <<e>>).proxies IN
              /\ emit(once, <<e>>).proxies = once
              /\ emit(ProxiesOf(t), <<e, e>>).proxies = once
              /\ \A f \in Identified :
                    emit(ProxiesOf(t), <<e, f>>).proxies = emit(once, <<f>>).proxies

C20_Witness ==
    /\ last.op = "emit" /\ last.err = "none" /\ last.n = 2
    /\ Len(tasks[last.task].log) = 3
    /\ tasks[last.task].log[1] = tasks[last.task].log[3]
    /\ tasks[last.task].log[2].id # tasks[last.task].log[1].id
    /\ Len(ProxiesOf(last.task)) = 2

\* the prefix a call works with: the prefix keyword when given, else the
\* dataset prefix
PrefixOf(dprefix, kw) == Get(kw, "prefix", ContextPrefix(dprefix))

\* a helper call that returned gave an identifier that is neither None nor
\* empty, and one that did not return raised ValueError
NonEmptyOrValueError(r) ==
    \/ r.raised = "none" /\ r.id # None /\ r.id # ""
    \/ r.raised = "ValueError" /\ r.id = None

\* C21: make_slug, make_id and make_fingerprint_id each return a non-empty
\* identifier or raise ValueError, whatever the parts and the prefix (the
\* dataset prefix, or the prefix keyword when given), and two calls with the
\* same prefix and parts come to the same identifier.
C21_IdNonEmptyOrValueError ==
    /\ idc.calls >= 1 => NonEmptyOrValueError(idc.r1)
    /\ idc.calls = 2
        => /\ NonEmptyOrValueError(idc.r2)
           /\ (/\ PrefixOf(idc.dprefix1, idc.kw1) = PrefixOf(idc.dprefix2, idc.kw2)
               /\ Pop(idc.kw1, "prefix") = Pop(idc.kw2, "prefix"))
                  => idc.r1 = idc.r2

C21_Witness ==
    /\ idc.calls = 2
    /\ idc.r1.raised = "none" /\ idc.r1 = idc.r2
    /\ idc.kw1 # idc.kw2
    /\ PrefixOf(idc.dprefix1, idc.kw1) = PrefixOf(idc.dprefix2, idc.kw2)
    /\ Len(idc.args) = 2

\* C22: every Source that was constructed has a non-empty name, whatever
\* name (none, an empty one, some) the caller gave, and two Sources made
\* without a name from one locator have the same name.
C22_NameNonEmpty ==
    /\ \A i \in SourceIds :
          srcs.obj[i].made => (srcs.obj[i].name # None /\ srcs.obj[i].name # "")
    /\ \A i \in SourceIds : \A j \in SourceIds :
          (/\ srcs.obj[i].made /\ srcs.obj[j].made
           /\ ~srcs.obj[i].named /\ ~srcs.obj[j].named
           /\ srcs.obj[i].uri0 = srcs.obj[j].uri0)
              => srcs.obj[i].name = srcs.obj[j].name

\* C24: for one Source the freshness metadata is computed at most once,
\* however often it is asked for: after the first info() every request gets
\* the memoized value without another probe of the resource, and the locator
\* stays what it was.
C24_InfoComputedOnce ==
    \A i \in SourceIds :
        srcs.obj[i].made
            => /\ srcs.obj[i].probes <= 1
               /\ srcs.obj[i].info # None => srcs.obj[i].got = srcs.obj[i].info
               /\ srcs.obj[i].uri = srcs.obj[i].uri0

\* the extraction tag key of source s as dataset d has it
KeyUnder(d, s) == <<d, "extract">> \o ckey[s]

\* extract returned at line 279 without invoking the handler
Skipped == exState = "done" /\ Src \notin invoked

\* C23: the extraction tag key is the dataset name joined with "extract"
\* and the source's cache key, so that a tag written while one dataset ran
\* never makes a source skipped under another dataset name; a source whose
\* cache key is empty has no key, is never skipped and gets no tag.
C23_TagKeyNamespaced ==
    /\ \A s \in SourceNames :
          ExtractTagKey(s) = IF ckey[s] = NoKey THEN NoKey ELSE KeyUnder(dataset, s)
    /\ (run = 2 /\ prevRun.dataset # dataset /\ Entered)
          => (Src \notin hadTag /\ ~Skipped)
    /\ (Entered /\ ckey[Src] = NoKey)
          => (~Skipped /\ Src \notin puts /\ tags = exTags0)

C23_Witness ==
    /\ run = 2 /\ incremental /\ prevRun.dataset # dataset
    /\ ckey[Src] # NoKey
    /\ KeyUnder(prevRun.dataset, Src) \in exTags0
    /\ exState = "done" /\ Src \in exhausted /\ nrec[Src] > 0
    /\ KeyUnder(dataset, Src) \in tags

\* the keyword arguments that are left of a call's when make_cache_key has
\* taken out those for pacing and for the cache itself
CallKwargs(kw) == Pop(Pop(WithoutPacing(kw), "cache"), "url_key_only")

\* C25: the key of the incremental skip check depends on the locator and on
\* the call arguments as well as on the fingerprint, so skip_cached_source
\* for one source is satisfied only by an entry made for that locator with
\* the arguments skip_cached_source has, never by an entry made for another
\* source.
C25_KeyDependsOnLocator ==
    (skipc.op = "skip" /\ skipc.key # NoKey)
        => LET made == EntryOf(acache, skipc.key).bytes
           IN  /\ made.uri = skipc.uri
               /\ made.args = <<>>
               /\ CallKwargs(made.kw) = SkipKwargs

\* C26: after archive_source has swallowed a fetch error (raise_on_error
\* false), a later call with the same locator and arguments attempts the
\* fetch again and does not return the key of the failed call from the
\* archive cache; when it meets no error the resource is in the archive.
C26_SwallowedErrorRetried ==
    (/\ aprev.op = "archive_source" /\ acall.op = "archive_source"
     /\ aprev.uri = acall.uri /\ aprev.kw = acall.kw
     /\ aprev.failed = "fetch" /\ ~aprev.raised)
        => /\ ~acall.hit
           /\ acall.fetched
           /\ (~acall.raised /\ acall.failed = "none") => HasEntry(archive, acall.key)

\* the collector has collected every entity of the store once, no other
FullPass ==
    \A e \in StoredEntities : exp.collected[e] = IF e \in store THEN 1 ELSE 0

\* C27: the default export handler derives statistics only from a full pass
\* over the persisted store: when it applies statistics to the dataset or
\* writes them, the collector has collected every stored entity exactly
\* once; with neither entities_uri nor index_uri set no statistics are
\* computed or applied.
C27_StatsFromFullPass ==
    /\ (exp.applied \/ exp.index_written \/ exp.statistics_written) => FullPass
    /\ (exp.at # "idle" /\ ~exp.entities_uri /\ ~exp.index_uri)
          => (~exp.computed /\ ~exp.applied)

\* C28: two calls of archive_source for one locator with the same content
\* that run at a time return the same archive key, and however their writes
\* interleave the archive store ends with one entry under that key, which
\* holds the complete content.
C28_ConcurrentWritesIdempotent ==
    (\A p \in Procs : wr[p].at = "done")
        => LET key == Append(make_archive_key(TheUri),
                             ContentChecksum(resource[TheUri].content))
           IN  /\ \A p \in Procs : wr[p].ret = key
               /\ archive = {[key |-> key, bytes |-> Chunks(resource[TheUri].content)]}

C28_Witness ==
    /\ \A p \in Procs : wr[p].at = "done" /\ ~wr[p].hit
    /\ \E p \in Procs : wr[p].raced

\* C29: get_source_context(config, name, uri) returns a context whose
\* source is named name, or raises ValueError when no configured source has
\* that name and no uri is given; it never returns a context for a source of
\* another name.
C29_ContextForNamedSource ==
    sctx.called
        => /\ sctx.raised = "none" => sctx.source = sctx.name
           /\ sctx.raised # "none"
                 => /\ sctx.raised = "ValueError"
                    /\ \A i \in 1..Len(sctx.sources) : sctx.sources[i] # sctx.name
                    /\ ~Truthy(sctx.uri)
           /\ (/\ \A i \in 1..Len(sctx.sources) : sctx.sources[i] # sctx.name
               /\ sctx.uri = None)
                 => sctx.raised = "ValueError"

\* C30: the standalone path (the records of extract_all fed one by one to
\* transform_record) calls the transform handler for each record with the
\* index SourceContext.transform has for it inside pipeline.run, the 1-based
\* position of the record within its source.
C30_SameIndexAsPipeline ==
    pc = "cli_transform"
        => \A i \in 1..Len(calls) : calls[i].ix = TransformIndex(calls[i].rec)

(* ------------------------------- C31 ----------------------------------- *)
\* C31: when the consumer stops pulling from extract()'s record sequence
\* before it ends, no completion tag is written for that source: the tags
\* are the ones that were there when extract was called.
C31_NoTagWhenAbandoned ==
    exState = "closed" => tags = exTags0 /\ Src \notin puts

\* a source with a key and no tag gave a record to a consumer that asked for
\* every record, and the consumer stopped there
C31_Witness ==
    /\ exState = "closed" /\ exYielded >= 1 /\ limit = NoLimit
    /\ Keyed(Src) /\ Src \notin hadTag

(* ------------------------------- C32 ----------------------------------- *)
\* the place of the first argument of the last emit call that is an entity
\* without identifier
FirstNoId ==
    CHOOSE k \in 1..Len(last.args) :
        /\ last.args[k] \in Unidentified
        /\ \A i \in 1..(k - 1) : last.args[i] \notin Unidentified

\* the arguments before it, and the entities among them
ArgsBefore == SubSeq(last.args, 1, FirstNoId - 1)
EntitiesBefore == SelectSeq(ArgsBefore, LAMBDA a : ~a.none)

\* the property values an accumulator holds under a key
PropsUnder(proxies, id) ==
    UNION {proxies[i].val.props : i \in EntriesUnder(proxies, id)}

\* C32: when emit(e1,...,en) fails because ek has no identifier, the
\* accumulator afterwards is what the emission of e1..e(k-1) gives: the keys
\* are those it had and the identifiers of the entities before ek, each key
\* holds the values it had and those of the entities before ek with that
\* identifier, and nothing of the arguments after ek; null arguments make no
\* difference.
C32_FailedEmitIsPrefixEmit ==
    (last.op = "emit" /\ last.noid)
        => /\ last.err = "DataError"
           /\ emit(last.before, ArgsBefore).err = "none"
           /\ ProxiesOf(last.task) = emit(last.before, ArgsBefore).proxies
           /\ ProxiesOf(last.task) = emit(last.before, EntitiesBefore).proxies
           /\ {ProxiesOf(last.task)[i].key : i \in 1..Len(ProxiesOf(last.task))}
                 = {last.before[i].key : i \in 1..Len(last.before)}
                      \cup {e.id : e \in Range(EntitiesBefore)}
           /\ \A id \in Ids :
                 /\ Cardinality(EntriesUnder(ProxiesOf(last.task), id)) <= 1
                 /\ PropsUnder(ProxiesOf(last.task), id)
                       = PropsUnder(last.before, id)
                            \cup UNION {e.props : e \in
                                  {f \in Range(EntitiesBefore) : f.id = id}}

\* an emit call with an entity and then an entity without identifier, on an
\* accumulator that holds another entity: the call failed and kept the first
C32_Witness ==
    /\ last.op = "emit" /\ last.noid /\ last.err = "DataError"
    /\ Len(last.args) = 2
    /\ last.args[1] \in Identified
    /\ last.args[2] \in Unidentified
    /\ last.before # <<>>
    /\ ~HasKey(last.before, last.args[1].id)
    /\ Len(ProxiesOf(last.task)) = Len(last.before) + 1

(* ------------------------------- C33 ----------------------------------- *)
\* this call is the incremental one that follows a call with incremental
\* mode off, of the same dataset, that exhausted the source's records
AfterFullExtract ==
    /\ run = 2 /\ incremental /\ ~prevRun.incremental
    /\ prevRun.dataset = dataset
    /\ exState # "none"
    /\ Src \in prevRun.exhausted

\* C33 as stated: with incremental mode off extract never skips a source,
\* and writes the completion tag once the records are exhausted; a later
\* call with incremental mode on skips that source.
C33_FullExtractTagsForLater ==
    /\ (~incremental /\ exState = "done") => Src \in invoked
    /\ (~incremental /\ exState = "done" /\ Src \in exhausted)
          => (ExtractTagKey(Src) \in tags /\ Src \in puts)
    /\ (AfterFullExtract /\ exState = "done") => Skipped

\* C33 amended: with incremental mode off extract never skips a source,
\* tagged or not; for a source with a cache key it writes the completion tag
\* once the records are exhausted, and a later call with incremental mode on
\* skips that source: it ends at the first request without invoking the
\* handler, yielding a record or touching the tags.
C33_FullExtractTagsKeyedForLater ==
    /\ (~incremental /\ exState = "done") => Src \in invoked
    /\ (~incremental /\ exState = "done" /\ Src \in exhausted /\ Keyed(Src))
          => (ExtractTagKey(Src) \in tags /\ Src \in puts)
    /\ (AfterFullExtract /\ Keyed(Src))
          => /\ exState \notin {"running", "raised"}
             /\ Src \notin invoked /\ exYielded = 0 /\ tags = exTags0

\* a source with a key and records was extracted to its end with
\* incremental mode off, and the incremental call after it skipped it
C33_Witness ==
    /\ AfterFullExtract /\ Keyed(Src) /\ nrec[Src] > 0
    /\ Skipped

====
